---- MODULE Spec2Model ----
(***************************************************************************)
(* Marker rendering and caching of mapnik:                                 *)
(*   src/src/renderer_common/render_markers_symbolizer.cpp                 *)
(*       render_markers_symbolizer, render_marker_symbolizer_visitor       *)
(*       (attribute cache, ellipse cache, their mutex)                     *)
(*   src/src/agg/process_markers_symbolizer.cpp                            *)
(*       agg_markers_renderer_context::render_marker                       *)
(*       (rendered-image cache, its mutex)                                 *)
(*                                                                         *)
(* The model is the MAPNIK_THREADSAFE build: NumThreads renders run        *)
(* concurrently and share the three static caches.  Coordinates are        *)
(* fixed-point numbers, Unit steps to the pixel.                           *)
(***************************************************************************)
EXTENDS Integers, Sequences, FiniteSets, TLC

(***************************************************************************)
(* Bounds of the model.  The three cache sizes are the program's constants *)
(* scaled down (4096, 256 and 256 in the source) so that the eviction and  *)
(* the overflow cases are reached.                                         *)
(***************************************************************************)
NumThreads == 2
cache_size == 1
attributes_cache_size == 1
ellipses_cache_size == 1
MaxPlacements == 1

Threads == 1 .. NumThreads

\* static constexpr int sampling_rate = 8
sampling_rate == 8

\* One pixel, in the fixed-point steps that stand for a double.
Unit == 100

\* -std::numeric_limits<double>::infinity(), the "unspecified" ellipse key field
NegInf == -1

(***************************************************************************)
(* std::floor, and the fractional part x - std::floor(x), on fixed-point   *)
(* numbers (\div rounds towards minus infinity).                           *)
(***************************************************************************)
Floor(x) == (x \div Unit) * Unit

\* std::abs, std::fabs
Abs(x) == IF x < 0 THEN -x ELSE x
Frac(x) == x - Floor(x)

(***************************************************************************)
(* Symbolizer properties.  A property is absent, a literal or an           *)
(* expression over the feature.                                            *)
(***************************************************************************)
None == [kind |-> "none", v |-> 0]
Lit(x) == [kind |-> "lit", v |-> x]
Expr == [kind |-> "expr", v |-> 0]
FNone == [kind |-> "none", v |-> ""]
FLit(s) == [kind |-> "lit", v |-> s]

PropKeys ==
    {"file", "width", "height", "stroke_width", "fill_opacity", "stroke_opacity",
     "clip", "offset", "simplify_tolerance", "smooth", "geometry_transform",
     "allow_overlap", "ignore_placement", "opacity", "comp_op"}

\* The base of the property maps: no style property is set; the markers may
\* overlap and are not recorded in the collision detector, so that every
\* placement is granted and the detector stays as it is.
PBase ==
    [file |-> FNone, width |-> None, height |-> None, stroke_width |-> None,
     fill_opacity |-> None, stroke_opacity |-> None, clip |-> None, offset |-> None,
     simplify_tolerance |-> None, smooth |-> None, geometry_transform |-> None,
     allow_overlap |-> Lit(1), ignore_placement |-> Lit(1),
     opacity |-> None, comp_op |-> FNone]
PEllipse == PBase
PSized == [PBase EXCEPT !.width = Lit(10), !.height = Lit(10), !.stroke_width = Lit(2)]
PWide == [PBase EXCEPT !.width = Lit(20)]
PStroke == [PBase EXCEPT !.stroke_width = Lit(2)]
PClear == [PBase EXCEPT !.fill_opacity = Lit(0)]
PGlass == [PStroke EXCEPT !.fill_opacity = Lit(50), !.stroke_opacity = Lit(50)]
PBlend == [PSized EXCEPT !.opacity = Lit(50), !.comp_op = FLit("multiply")]
PExpr == [PBase EXCEPT !.width = Expr]
PExprStroke == [PBase EXCEPT !.stroke_width = Expr]
PSvg == [PBase EXCEPT !.file = FLit("marker.svg")]
PSvgWide == [PSvg EXCEPT !.width = Lit(20)]
PPng == [PBase EXCEPT !.file = FLit("image.png")]
PMissing == [PBase EXCEPT !.file = FLit("missing.svg")]
PTall == [PBase EXCEPT !.height = Lit(30)]
PEmpty == [PBase EXCEPT !.file = FLit("")]

\* bool is_expression(property)
is_expression(p) == p.kind = "expr"

\* has_key(sym, key)
has_key(pm, k) == pm[k].kind # "none"

\* get<T>(sym, key, feature, vars, default): a literal is itself, an
\* expression is evaluated on the feature, an absent key is the default.
get(pm, k, feature, default) ==
    IF pm[k].kind = "lit" THEN pm[k].v
    ELSE IF pm[k].kind = "expr" THEN feature.size
    ELSE default

(***************************************************************************)
(* Features: the only attribute an expression reads is the size; geom is   *)
(* geometry::geometry_type(feature.get_geometry()).                        *)
(***************************************************************************)
GeometryTypes ==
    {"Unknown", "Point", "LineString", "Polygon", "MultiPoint", "MultiLineString",
     "MultiPolygon", "GeometryCollection"}

Features == {[size |-> 10, geom |-> "Point"], [size |-> 20, geom |-> "LineString"]}

(***************************************************************************)
(* Paths (svg_path_ptr).  A pointer is the object's identity together with *)
(* the parameters the object was built from.  Two live objects never have  *)
(* the same pointer: objects of the same parameters differ in id.  The     *)
(* null pointer has id 0; the two stock markers of the marker registry are *)
(* the objects without parameters.                                         *)
(***************************************************************************)
Ptr(i, w, h, sw) == [id |-> i, w |-> w, h |-> h, sw |-> sw]
nullptr == Ptr(0, NegInf, NegInf, NegInf)
StockEllipse == Ptr(1, NegInf, NegInf, NegInf)
StockSvg == Ptr(2, NegInf, NegInf, NegInf)

\* Identities make_shared can hand out for one set of parameters: one for
\* every place that can hold a reference to a built ellipse.
PoolIds == 1 .. ((ellipses_cache_size + 1) + (cache_size + 1) + NumThreads)

\* src->bounding_box(): the stock markers' boxes, and the box of a built
\* ellipse (a missing dimension takes the other one).
bounding_box(p) ==
    IF p = StockEllipse THEN [minx |-> -550, miny |-> -550, maxx |-> 550, maxy |-> 550]
    ELSE IF p = StockSvg THEN [minx |-> 0, miny |-> 25, maxx |-> 1600, maxy |-> 1225]
    ELSE LET w == IF p.w # NegInf THEN p.w ELSE p.h
             h == IF p.h # NegInf THEN p.h ELSE p.w
         IN [minx |-> -((w * Unit) \div 2), miny |-> -((h * Unit) \div 2),
             maxx |-> (w * Unit) - ((w * Unit) \div 2), maxy |-> (h * Unit) - ((h * Unit) \div 2)]

(***************************************************************************)
(* svg::path_attributes, and the attribute vectors of the stock markers.   *)
(***************************************************************************)
\* Opacities are in percent: 100 is opaque.
Attr(ff, fo, sf, sw) ==
    [fill_flag |-> ff, fill_gradient |-> FALSE, fill_opacity |-> fo,
     stroke_flag |-> sf, stroke_gradient |-> FALSE, stroke_width |-> sw,
     stroke_opacity |-> 100]

\* stock_marker->attributes()
attributes(p) ==
    IF p = StockSvg THEN <<Attr(TRUE, 100, FALSE, 0), Attr(FALSE, 100, TRUE, 1)>>
    ELSE <<Attr(TRUE, 100, FALSE, 0)>>

\* push_explicit_style: TRUE when a style property of the symbolizer
\* overrides the stock attributes.
push_explicit_style(pm) ==
    has_key(pm, "stroke_width") \/ has_key(pm, "fill_opacity") \/ has_key(pm, "stroke_opacity")

\* the custom attributes push_explicit_style fills in
custom_attr(stock_attr, pm, feature) ==
    [i \in DOMAIN stock_attr |->
        [stock_attr[i] EXCEPT
            !.fill_opacity = get(pm, "fill_opacity", feature, @),
            !.stroke_flag = IF has_key(pm, "stroke_width") THEN TRUE ELSE @,
            !.stroke_width = get(pm, "stroke_width", feature, @),
            !.stroke_opacity = get(pm, "stroke_opacity", feature, @)]]

\* get_marker_attributes(stock_marker, custom_attr)
get_marker_attributes(stock_marker, pm, feature) ==
    IF push_explicit_style(pm)
    THEN custom_attr(attributes(stock_marker), pm, feature)
    ELSE attributes(stock_marker)

(***************************************************************************)
(* The marker registry: marker_cache::instance().find(filename, true).     *)
(***************************************************************************)
find_marker(filename) ==
    IF filename = "shape://ellipse" THEN [type |-> "svg", data |-> StockEllipse]
    ELSE IF filename = "marker.svg" THEN [type |-> "svg", data |-> StockSvg]
    ELSE IF filename = "image.png" THEN [type |-> "rgba8", data |-> nullptr]
    ELSE [type |-> "null", data |-> nullptr]

\* marker_cache::is_uri(filename)
is_uri(filename) == filename = "shape://ellipse"

(***************************************************************************)
(* Transforms (agg::trans_affine), scale in Units: sx = Unit is 1.0.       *)
(***************************************************************************)
Tr(sx, sy, shx, shy, tx, ty) ==
    [sx |-> sx, sy |-> sy, shx |-> shx, shy |-> shy, tx |-> tx, ty |-> ty]

\* the placements the dispatcher hands to render_marker
T_10_3 == Tr(Unit, Unit, 0, 0, 1030, 1070)
T_10_35 == Tr(Unit, Unit, 0, 0, 1035, 1072)
T_neg == Tr(Unit, Unit, 0, 0, -25, 1030)
T_scaled == Tr(2 * Unit, 2 * Unit, 0, 0, 1030, 1070)
T_sheared == Tr(Unit, Unit, 50, 0, 1030, 1070)

Transforms ==
    {T_10_3, T_10_35, T_neg, T_scaled, T_sheared}

\* trans_affine::translate(x, y)
translate(tr, x, y) == [tr EXCEPT !.tx = @ + x, !.ty = @ + y]

\* trans_affine::multiply: a * m is a applied first and m second
multiply(a, m) ==
    Tr((a.sx * m.sx + a.shy * m.shx) \div Unit,
       (a.shx * m.shy + a.sy * m.sy) \div Unit,
       (a.shx * m.sx + a.sy * m.shx) \div Unit,
       (a.sx * m.shy + a.shy * m.sy) \div Unit,
       (a.tx * m.sx + a.ty * m.shx) \div Unit + m.tx,
       (a.tx * m.shy + a.ty * m.sy) \div Unit + m.ty)

\* trans_affine::transform(&x, &y)
transform(tr, x, y) ==
    <<(x * tr.sx + y * tr.shx) \div Unit + tr.tx,
      (x * tr.shy + y * tr.sy) \div Unit + tr.ty>>

(***************************************************************************)
(* Images.  A pixel buffer is the set of the drawings that left a non-zero *)
(* pixel in it; a shared_ptr<image_rgba8> is null or owns a buffer.        *)
(***************************************************************************)
NullImg == [null |-> TRUE, pix |-> {}]
Img(pix) == [null |-> FALSE, pix |-> pix]

\* what rasterizing one attribute record of a path leaves in a buffer, drawn
\* with an opacity through a pixel format of composite mode comp_op
Drawings(path, a, tr, opacity, comp_op) ==
    (IF (a.fill_flag \/ a.fill_gradient) /\ a.fill_opacity > 0 /\ opacity > 0
     THEN {[part |-> "fill", path |-> path, ox |-> tr.tx, oy |-> tr.ty,
            opacity |-> opacity, comp_op |-> comp_op]} ELSE {})
    \cup
    (IF (a.stroke_flag \/ a.stroke_gradient) /\ a.stroke_width # 0 /\ a.stroke_opacity > 0
        /\ opacity > 0
     THEN {[part |-> "stroke", path |-> path, ox |-> tr.tx, oy |-> tr.ty,
            opacity |-> opacity, comp_op |-> comp_op]} ELSE {})

\* render_vector_marker(svg_renderer(path, attrs), ras, renb, bbox, tr,
\* opacity, snap_to_pixels); renb is given by the composite mode of its
\* pixel format
render_vector_marker(path, attrs, tr, opacity, renb) ==
    UNION {Drawings(path, attrs[i], tr, opacity, renb) : i \in DOMAIN attrs}

(***************************************************************************)
(* std::map: a function whose domain is the set of keys.  begin() is the   *)
(* entry with the smallest key of the map's ordering.                      *)
(***************************************************************************)
RECURSIVE LexLess(_, _)
LexLess(a, b) ==
    IF a = <<>> \/ b = <<>> THEN FALSE
    ELSE IF Head(a) # Head(b) THEN Head(a) < Head(b)
    ELSE LexLess(Tail(a), Tail(b))

B2I(b) == IF b THEN 1 ELSE 0

\* the order of svg::path_attributes, field by field
AttrTuple(a) ==
    <<B2I(a.fill_flag), B2I(a.fill_gradient), a.fill_opacity,
      B2I(a.stroke_flag), B2I(a.stroke_gradient), a.stroke_width, a.stroke_opacity>>

\* std::tuple<svg_path_ptr, int, svg::path_attributes>
ImgKey(src, idx, attr) == [src |-> src, idx |-> idx, attr |-> attr]
\* the order of the pointers (of the addresses)
PtrTuple(p) == <<p.id, p.w, p.h, p.sw>>
ImgKeyTuple(k) == PtrTuple(k.src) \o <<k.idx>> \o AttrTuple(k.attr)

ImgLess(a, b) == LexLess(ImgKeyTuple(a), ImgKeyTuple(b))
EllLess(a, b) == LexLess(a, b)
SymLess(a, b) == a < b

\* map.begin()->first, in each of the three maps
begin_attributes(m) == CHOOSE k \in DOMAIN m : \A j \in DOMAIN m \ {k} : SymLess(k, j)
begin_ellipses(m) == CHOOSE k \in DOMAIN m : \A j \in DOMAIN m \ {k} : EllLess(k, j)
begin_images(m) == CHOOSE k \in DOMAIN m : \A j \in DOMAIN m \ {k} : ImgLess(k, j)

\* map.erase(iterator)
erase(m, key) == [k \in DOMAIN m \ {key} |-> m[k]]

\* an eviction of the entry of the largest key
erase_last_image(m) ==
    erase(m, CHOOSE l \in DOMAIN m : \A j \in DOMAIN m \ {l} : ImgLess(j, l))

\* map.erase(map.begin()), in each of the three maps
erase_begin_attributes(m) == erase(m, begin_attributes(m))
erase_begin_ellipses(m) == erase(m, begin_ellipses(m))
erase_begin_images(m) == erase(m, begin_images(m))

\* map.emplace(key, value): nothing is stored when the key is present
emplace(m, key, value) ==
    IF key \in DOMAIN m THEN m
    ELSE [k \in DOMAIN m \cup {key} |-> IF k = key THEN value ELSE m[k]]

\* map[key] = value: inserts or overwrites
assign(m, key, value) ==
    [k \in DOMAIN m \cup {key} |-> IF k = key THEN value ELSE m[k]]

size(m) == Cardinality(DOMAIN m)

EmptyMap == [k \in {} |-> 0]

(***************************************************************************)
(* State.                                                                  *)
(***************************************************************************)
VARIABLES
    props,               \* sym.properties of every symbolizer
    cached_attributes_,  \* render_marker_symbolizer_visitor::cached_attributes_
    cached_ellipses_,    \* render_marker_symbolizer_visitor::cached_ellipses_
    visitor_mutex_,      \* render_marker_symbolizer_visitor::mutex_ (0: free)
    cached_images_,      \* agg_markers_renderer_context::cached_images_
    context_mutex_,      \* agg_markers_renderer_context::mutex_ (0: free)
    th,                  \* the locals of every rendering thread
    pl,                  \* the locals of one call of polylabel (interior.cpp)
    box,                 \* the box2d objects of the box2d test and its latest check
    conn,                \* one postgis Connection and its libpq handle
    bucket               \* the sample index of one translation, in doubles

vars == <<props, cached_attributes_, cached_ellipses_, visitor_mutex_,
          cached_images_, context_mutex_, th, pl, box, conn, bucket>>

\* The components outside the marker renderer, and the sample index alone.
others == <<pl, box, conn, bucket>>

\* Symbolizers, by address, and the property maps each of them takes.
Syms == {1, 2, 3}

SymProps(s) ==
    IF s = 1 THEN {PSized, PClear}
    ELSE IF s = 2 THEN {PWide, PStroke, PExpr, PExprStroke}
    ELSE {PTall, PEllipse, PSvg, PSvgWide, PPng, PMissing, PEmpty}

NoKey == ImgKey(nullptr, -1, Attr(FALSE, 0, FALSE, 0))
NoTr == Tr(0, 0, 0, 0, 0, 0)
\* What the latest call of render_marker did: the path it took, its key, the
\* images it rasterized and blitted, and whether it evicted.
NoImgLog ==
    [how |-> "none", key |-> NoKey, nraster |-> 0, evicted |-> FALSE,
     fill |-> NullImg, stroke |-> NullImg]

\* A thread outside render_markers_symbolizer.  r_attributes = <<>> is the
\* null svg_attribute_ptr; detector is *common_.detector_, the footprints
\* occupied in the thread's render job.
Idle ==
    [pc |-> "idle", sym |-> 0, feat |-> [size |-> 0, geom |-> "Unknown"], filename |-> "",
     r_attributes |-> <<>>, attr |-> "none",
     marker_ptr |-> nullptr, marker_key |-> <<>>, ell |-> "none",
     stages |-> {}, geom_tr |-> NoTr, image_tr |-> NoTr, marker_trans |-> NoTr,
     detector |-> {}, granted |-> FALSE,
     placed |-> 0, tr |-> NoTr, img |-> NoImgLog, writes |-> <<>>]

\* polylabel is not running.  divs is what its divisions did so far: z, a
\* division by zero was evaluated; ev, the division sites evaluated; sk, the
\* sites whose guard kept a zero divisor from being used.
NoDivs == [z |-> FALSE, ev |-> {}, sk |-> {}]
NoCell == [c |-> [x |-> 0, y |-> 0], h |-> 0, d |-> 0, fitness |-> 0, max_fitness |-> 0]
PlIdle ==
    [pc |-> "idle", polygon |-> <<>>, precision |-> 0, centroid |-> <<>>,
     queue |-> {}, best |-> NoCell, cells |-> 0, divs |-> NoDivs,
     ret |-> [x |-> 0, y |-> 0]]

\* No box2d is built.  e is the box under test, of coordinate type T; was,
\* k, arg, pt and r are the operand and the result of its latest operation
\* op, n the number of operations that changed it.
NoBox == [minx |-> 0, miny |-> 0, maxx |-> 0, maxy |-> 0]
BoxIdle ==
    [pc |-> "idle", T |-> "double", e |-> NoBox, op |-> "none", was |-> NoBox,
     k |-> 0, arg |-> NoBox, pt |-> [x |-> 0, y |-> 0], r |-> FALSE, n |-> 0]

\* No sample index is computed.
BucketIdle ==
    [pc |-> "idle", tx |-> 0, ty |-> 0, dx |-> 0, dy |-> 0,
     sample_x |-> 0, sample_y |-> 0, sample_idx |-> 0]

\* No Connection is constructed.  handle is what became of conn_ (none, open,
\* finished by PQfinish), status what PQstatus reports, pending the results
\* PQgetResult has still to return.  op, raised, ret and calls are the latest
\* member call, whether it threw, the result it returned and its calls of
\* libpq; unread counts the results pending at the latest PQfinish, finishes
\* the calls of PQfinish; uaf is set once a finished handle is passed to libpq.
\* result is the PGresult the latest member got first; args and err_msg are
\* the arguments of a constructor that threw and the message it threw.  A
\* string is the sequence of the strings it is concatenated of, an optional
\* string a sequence of at most one string.
NoArgs == [connection_str |-> <<>>, password |-> <<>>]
ConnIdle ==
    [pc |-> "none", handle |-> "none", status |-> "CONNECTION_OK", closed_ |-> FALSE,
     pending |-> <<>>, op |-> "none", raised |-> FALSE, ret |-> "none", calls |-> <<>>,
     unread |-> 0, finishes |-> 0, uaf |-> FALSE, failed |-> FALSE,
     result |-> "none", args |-> NoArgs, err_msg |-> <<>>]

\* Nothing is cached and no thread renders; p is the symbolizers' properties.
InitWith(p) ==
    /\ props = p
    /\ cached_attributes_ = EmptyMap
    /\ cached_ellipses_ = EmptyMap
    /\ visitor_mutex_ = 0
    /\ cached_images_ = EmptyMap
    /\ context_mutex_ = 0
    /\ th = [t \in Threads |-> Idle]
    /\ pl = PlIdle
    /\ box = BoxIdle
    /\ conn = ConnIdle
    /\ bucket = BucketIdle

Init == InitWith([s \in Syms |-> IF s = 1 THEN PSized ELSE IF s = 2 THEN PWide ELSE PTall])

UNCH_caches == UNCHANGED <<cached_attributes_, cached_ellipses_, cached_images_>>
UNCH_mutexes == UNCHANGED <<visitor_mutex_, context_mutex_>>

(***************************************************************************)
(* A literal property of a symbolizer changes (or the symbolizer is        *)
(* replaced by another one at the same address) between two renders.       *)
(***************************************************************************)
Mutate(s, pm) ==
    /\ \A t \in Threads : th[t].pc = "idle" \/ th[t].sym # s
    /\ pm \in SymProps(s) \ {props[s]}
    /\ props' = [props EXCEPT ![s] = pm]
    /\ UNCH_caches /\ UNCH_mutexes /\ UNCHANGED <<th, others>>

(***************************************************************************)
(* render_markers_symbolizer: the file name, the registry lookup and the   *)
(* visit of the marker variant.                                            *)
(***************************************************************************)
\* get<std::string>(sym, keys::file, feature, vars, "shape://ellipse")
get_filename(pm) == IF pm.file.kind = "lit" THEN pm.file.v ELSE "shape://ellipse"

\* a visitor whose marker_null overload goes on as for a vector marker
first_step_visiting_null(filename, type) ==
    IF filename = "" THEN "ret"
    ELSE IF type = "rgba8" THEN "raster"
    ELSE "attr_lock"

\* lines 366-372 and the visitor's three overloads (119, 121, 255): where
\* the render goes on
first_step(filename, type) ==
    IF filename = "" THEN "ret"
    ELSE IF type = "null" THEN "ret"
    ELSE IF type = "rgba8" THEN "raster"
    ELSE "attr_lock"

Begin(t, s, f) ==
    /\ th[t].pc = "idle"
    /\ LET filename == get_filename(props[s])
           mark == find_marker(filename)
           next == first_step(filename, mark.type)
       IN th' = [th EXCEPT ![t] = [Idle EXCEPT !.pc = next, !.sym = s, !.feat = f,
                                               !.filename = filename,
                                               !.marker_ptr = mark.data,
                                               !.detector = th[t].detector]]
    /\ UNCHANGED <<props, others>> /\ UNCH_caches /\ UNCH_mutexes

\* the return of render_markers_symbolizer
Finish(t) ==
    /\ th[t].pc = "ret"
    /\ th' = [th EXCEPT ![t] = [Idle EXCEPT !.detector = th[t].detector]]
    /\ UNCHANGED <<props, others>> /\ UNCH_caches /\ UNCH_mutexes

(***************************************************************************)
(* operator()(marker_svg const&): the attribute cache.                     *)
(***************************************************************************)
\* a lock that is taken without waiting for its holder
VisitorLock_without_wait(t) ==
    /\ th[t].pc \in {"attr_lock", "attr_ins_lock", "ell_lock", "ell_ins_lock"}
    /\ visitor_mutex_' = t
    /\ th' = [th EXCEPT ![t].pc =
                 IF @ = "attr_lock" THEN "attr_find"
                 ELSE IF @ = "attr_ins_lock" THEN "attr_insert"
                 ELSE IF @ = "ell_lock" THEN "ell_find"
                 ELSE "ell_insert"]
    /\ UNCHANGED <<props, others, context_mutex_>> /\ UNCH_caches

\* std::lock_guard<std::mutex> lock(mutex_), at lines 145, 172, 205 and 222
VisitorLock(t) ==
    /\ th[t].pc \in {"attr_lock", "attr_ins_lock", "ell_lock", "ell_ins_lock"}
    /\ visitor_mutex_ = 0
    /\ visitor_mutex_' = t
    /\ th' = [th EXCEPT ![t].pc =
                 IF @ = "attr_lock" THEN "attr_find"
                 ELSE IF @ = "attr_ins_lock" THEN "attr_insert"
                 ELSE IF @ = "ell_lock" THEN "ell_find"
                 ELSE "ell_insert"]
    /\ UNCHANGED <<props, others, context_mutex_>> /\ UNCH_caches

\* a hit test that trusts the symbolizer's address alone
attr_cache_hit_by_address(m, key, pm) == key \in DOMAIN m

\* the hit test of lines 147-149
attr_cache_hit(m, key, pm) == key \in DOMAIN m /\ m[key].props = pm

\* a lookup whose lock outlives the block of lines 143-153
AttrFind_keeping_lock(t) ==
    /\ th[t].pc = "attr_find"
    /\ LET attr_key == th[t].sym
           hit == attr_cache_hit(cached_attributes_, attr_key, props[attr_key])
       IN th' = [th EXCEPT ![t].pc = IF hit THEN "ell_branch" ELSE "attr_resolve",
                           ![t].attr = IF hit THEN "hit" ELSE "miss",
                           ![t].r_attributes =
                               IF hit THEN cached_attributes_[attr_key].attrs ELSE @]
    /\ UNCHANGED <<props, others, visitor_mutex_, context_mutex_>> /\ UNCH_caches

\* lines 147-153: the lookup, and the end of the lock's scope
AttrFind(t) ==
    /\ th[t].pc = "attr_find"
    /\ LET attr_key == th[t].sym
           hit == attr_cache_hit(cached_attributes_, attr_key, props[attr_key])
       IN th' = [th EXCEPT ![t].pc = IF hit THEN "ell_branch" ELSE "attr_resolve",
                           ![t].attr = IF hit THEN "hit" ELSE "miss",
                           ![t].r_attributes =
                               IF hit THEN cached_attributes_[attr_key].attrs ELSE @]
    /\ visitor_mutex_' = 0
    /\ UNCHANGED <<props, others, context_mutex_>> /\ UNCH_caches

\* a test that takes every symbolizer for cacheable
attr_cacheable_always(pm) == TRUE

\* lines 165-168: no property is an expression
attr_cacheable(pm) == \A k \in PropKeys : ~is_expression(pm[k])

\* lines 157-169: the attributes are resolved afresh
AttrResolve(t) ==
    /\ th[t].pc = "attr_resolve"
    /\ LET pm == props[th[t].sym]
       IN th' = [th EXCEPT ![t].r_attributes =
                               get_marker_attributes(th[t].marker_ptr, pm, th[t].feat),
                           ![t].pc = IF attr_cacheable(pm) THEN "attr_ins_lock"
                                     ELSE "ell_branch"]
    /\ UNCHANGED <<props, others>> /\ UNCH_caches /\ UNCH_mutexes

\* lines 174-178: evict, then cached_attributes_[attr_key] = ...
attr_cache_insert(m, key, value) ==
    assign(IF size(m) > attributes_cache_size THEN erase_begin_attributes(m) ELSE m,
           key, value)

AttrInsert(t) ==
    /\ th[t].pc = "attr_insert"
    /\ cached_attributes_' =
           attr_cache_insert(cached_attributes_, th[t].sym,
                             [attrs |-> th[t].r_attributes, props |-> props[th[t].sym]])
    /\ visitor_mutex_' = 0
    /\ th' = [th EXCEPT ![t].pc = "ell_branch"]
    /\ UNCHANGED <<props, others, context_mutex_, cached_ellipses_, cached_images_>>

(***************************************************************************)
(* operator()(marker_svg const&): the ellipse cache.                       *)
(***************************************************************************)
\* a test of the size that forgets the file name
uses_stock_marker_by_size(filename, pm) ==
    ~(has_key(pm, "width") \/ has_key(pm, "height"))

\* line 182-183: the stock marker is used as it is
uses_stock_marker(filename, pm) ==
    filename # "shape://ellipse" \/ ~(has_key(pm, "width") \/ has_key(pm, "height"))

\* lines 195-199
ellipse_key(pm, feature) ==
    <<get(pm, "width", feature, NegInf), get(pm, "height", feature, NegInf),
      get(pm, "stroke_width", feature, NegInf)>>

\* lines 182-203
EllBranch(t) ==
    /\ th[t].pc = "ell_branch"
    /\ LET pm == props[th[t].sym]
       IN IF uses_stock_marker(th[t].filename, pm)
          THEN th' = [th EXCEPT ![t].pc = "convert"]
          ELSE th' = [th EXCEPT ![t].pc = "ell_lock",
                                ![t].marker_key = ellipse_key(pm, th[t].feat),
                                ![t].marker_ptr = nullptr]
    /\ UNCHANGED <<props, others>> /\ UNCH_caches /\ UNCH_mutexes

\* lines 207-212: the lookup, and the end of the lock's scope
EllFind(t) ==
    /\ th[t].pc = "ell_find"
    /\ LET hit == th[t].marker_key \in DOMAIN cached_ellipses_
       IN th' = [th EXCEPT ![t].pc = IF hit THEN "convert" ELSE "ell_build",
                           ![t].ell = IF hit THEN "hit" ELSE "miss",
                           ![t].marker_ptr =
                               IF hit THEN cached_ellipses_[th[t].marker_key] ELSE @]
    /\ visitor_mutex_' = 0
    /\ UNCHANGED <<props, others, context_mutex_>> /\ UNCH_caches

\* the path objects something still refers to
Live ==
    {cached_ellipses_[k] : k \in DOMAIN cached_ellipses_}
    \cup {k.src : k \in DOMAIN cached_images_}
    \cup {th[t].marker_ptr : t \in Threads}

\* std::make_shared<svg_storage_type>(): an object no live pointer refers to
make_shared(key) ==
    LET free == {i \in PoolIds : Ptr(i, key[1], key[2], key[3]) \notin Live}
    IN Ptr(CHOOSE i \in free : \A j \in free : i <= j, key[1], key[2], key[3])

\* lines 216-219: std::make_shared<svg_storage_type>() and build_ellipse
EllBuild(t) ==
    /\ th[t].pc = "ell_build"
    /\ th' = [th EXCEPT ![t].pc = "ell_ins_lock",
                        ![t].marker_ptr = make_shared(th[t].marker_key)]
    /\ UNCHANGED <<props, others>> /\ UNCH_caches /\ UNCH_mutexes

\* an insertion that evicts after it has stored the entry
ell_cache_insert_then_evict(m, key, value) ==
    LET n == emplace(m, key, value)
    IN IF size(n) > ellipses_cache_size THEN erase_begin_ellipses(n) ELSE n

\* lines 224-228: evict, then emplace
ell_cache_insert(m, key, value) ==
    emplace(IF size(m) > ellipses_cache_size THEN erase_begin_ellipses(m) ELSE m,
            key, value)

EllInsert(t) ==
    /\ th[t].pc = "ell_insert"
    /\ cached_ellipses_' = ell_cache_insert(cached_ellipses_, th[t].marker_key, th[t].marker_ptr)
    /\ visitor_mutex_' = 0
    /\ th' = [th EXCEPT ![t].pc = "convert"]
    /\ UNCHANGED <<props, others, context_mutex_, cached_attributes_, cached_images_>>

(***************************************************************************)
(* render_marker of the visitor: the geometry transform and the stages of  *)
(* the vertex converter, set before the placements are dispatched.         *)
(***************************************************************************)
Identity == Tr(Unit, Unit, 0, 0, 0, 0)

\* what evaluate_transform gives for the symbolizer's geometry transform
T_geom == Tr(2 * Unit, 2 * Unit, 0, 0, 0, 0)

\* lines 71-75
geom_tr(pm, feature) == IF has_key(pm, "geometry_transform") THEN T_geom ELSE Identity

\* an offset test that forgets the magnitude
offset_enabled_if_positive(offset) == offset > 0

\* line 111: std::fabs(offset) > 0.0
offset_enabled(offset) == Abs(offset) > 0

\* lines 86-114: the tags set on the converter
converter_stages(pm, feature) ==
    LET clip == get(pm, "clip", feature, 0) # 0
        offset == get(pm, "offset", feature, 0)
        simplify_tolerance == get(pm, "simplify_tolerance", feature, 0)
        smooth == get(pm, "smooth", feature, 0)
    IN (IF clip /\ feature.geom \in {"Polygon", "MultiPolygon"} THEN {"clip_poly"} ELSE {})
       \cup (IF clip /\ feature.geom \in {"LineString", "MultiLineString"}
             THEN {"clip_line"} ELSE {})
       \cup {"transform"}
       \cup (IF offset_enabled(offset) THEN {"offset_transform"} ELSE {})
       \cup {"affine_transform"}
       \cup (IF simplify_tolerance > 0 THEN {"simplify"} ELSE {})
       \cup (IF smooth > 0 THEN {"smooth"} ELSE {})

\* lines 66-116, up to the call of apply_markers_multi
RenderMarker(t) ==
    /\ th[t].pc = "convert"
    /\ th' = [th EXCEPT ![t].pc = "dispatch",
                        ![t].geom_tr = geom_tr(props[th[t].sym], th[t].feat),
                        ![t].stages = converter_stages(props[th[t].sym], th[t].feat)]
    /\ UNCHANGED <<props, others>> /\ UNCH_caches /\ UNCH_mutexes

(***************************************************************************)
(* The dispatcher: every candidate anchor is put to the collision          *)
(* detector, and every granted placement calls render_marker of the        *)
(* renderer context with the placement's transform.                        *)
(***************************************************************************)
\* a test of the scale that forgets the shear
cacheable_by_scale(tr) == tr.sx = Unit /\ tr.sy = Unit

\* lines 89-90
cacheable(tr) == tr.sx = Unit /\ tr.sy = Unit /\ tr.shx = 0 /\ tr.shy = 0

\* lines 84-91: the cached rendering path is taken
takes_cached_path(attrs, tr) == Len(attrs) = 1 /\ cacheable(tr)

\* a constructor that reads ignore_placement from the wrong key
markers_dispatch_params_swapped(pm, feature) ==
    [allow_overlap |-> get(pm, "allow_overlap", feature, 0) # 0,
     ignore_placement |-> get(pm, "allow_overlap", feature, 0) # 0,
     opacity |-> get(pm, "opacity", feature, 100)]

\* markers_dispatch_params::markers_dispatch_params, lines 326-348
markers_dispatch_params(pm, feature) ==
    [allow_overlap |-> get(pm, "allow_overlap", feature, 0) # 0,
     ignore_placement |-> get(pm, "ignore_placement", feature, 0) # 0,
     opacity |-> get(pm, "opacity", feature, 100)]

\* agg_markers_renderer_context's constructor, lines 62-74: comp_op_, the
\* composite mode the pixel format of the destination is set to
comp_op_(pm, feature) == get(pm, "comp_op", feature, "src_over")

\* the footprint of a candidate: the pixel of its anchor
footprint(tr) == <<tr.tx \div Unit, tr.ty \div Unit>>

\* the collision service grants a candidate whose footprint is free, or any
\* candidate when overlap is allowed
grants(params, detector, tr) == params.allow_overlap \/ footprint(tr) \notin detector

\* a granted candidate's footprint is marked unless ignore_placement is set
detector_after(params, detector, tr) ==
    IF grants(params, detector, tr) /\ ~params.ignore_placement
    THEN detector \cup {footprint(tr)} ELSE detector

\* one candidate anchor of the feature: granted, it is rendered
Place(t, tr) ==
    /\ th[t].pc = "dispatch"
    /\ th[t].placed < MaxPlacements
    /\ LET params == markers_dispatch_params(props[th[t].sym], th[t].feat)
           granted == grants(params, th[t].detector, tr)
       IN
       th' = [th EXCEPT ![t].pc = IF ~granted THEN "dispatch"
                                  ELSE IF find_marker(th[t].filename).type = "rgba8"
                                  THEN "raster_render"
                                  ELSE IF takes_cached_path(th[t].r_attributes, tr)
                                  THEN "img_lock" ELSE "fallback",
                        ![t].granted = granted,
                        ![t].detector = detector_after(params, th[t].detector, tr),
                        ![t].placed = @ + 1,
                        ![t].tr = tr,
                        ![t].img = NoImgLog,
                        ![t].writes = <<>>]
    /\ UNCHANGED <<props, others>> /\ UNCH_caches /\ UNCH_mutexes

\* no further placement: operator() returns
EndDispatch(t) ==
    /\ th[t].pc = "dispatch"
    /\ th' = [th EXCEPT ![t].pc = "ret"]
    /\ UNCHANGED <<props, others>> /\ UNCH_caches /\ UNCH_mutexes

\* lines 210-212: the non-cached rendering path
Fallback(t) ==
    /\ th[t].pc = "fallback"
    /\ LET params == markers_dispatch_params(props[th[t].sym], th[t].feat)
           pix == render_vector_marker(th[t].marker_ptr, th[t].r_attributes, th[t].tr,
                                       params.opacity,
                                       comp_op_(props[th[t].sym], th[t].feat))
       IN th' = [th EXCEPT ![t].pc = "dispatch",
                           ![t].img = [NoImgLog EXCEPT !.how = "direct", !.nraster = 1],
                           ![t].writes = Append(@, [kind |-> "vector", pix |-> pix,
                                                    tr |-> th[t].tr])]
    /\ UNCHANGED <<props, others>> /\ UNCH_caches /\ UNCH_mutexes

\* mark.bounding_box() of the raster marker, an image of 16 x 12 pixels
raster_bounding_box == [minx |-> 0, miny |-> 0, maxx |-> 16 * Unit, maxy |-> 12 * Unit]

\* bbox.center()
center(b) == [x |-> (b.minx + b.maxx) \div 2, y |-> (b.miny + b.maxy) \div 2]

\* what lines 258-262 leave in image_tr: the render scale, the scaling to
\* the symbolizer's size and the evaluated image transform
ImageTransforms ==
    {Identity,
     Tr(2 * Unit, 2 * Unit, 0, 0, 0, 0),
     Tr(0, 0, -Unit, Unit, 0, 0),
     Tr(Unit, Unit, Unit, 0, 0, 0),
     Tr(2 * Unit, 3 * Unit, 0, 0, 500, 700)}

\* a marker transform composed in the other order
marker_trans_recentered_last(bbox, image_tr) ==
    multiply(image_tr, Tr(Unit, Unit, 0, 0, -center(bbox).x, -center(bbox).y))

\* lines 266-268: recenter * image_tr
marker_trans(bbox, image_tr) ==
    multiply(Tr(Unit, Unit, 0, 0, -center(bbox).x, -center(bbox).y), image_tr)

\* operator()(marker_rgba8 const&), lines 255-276
RasterMarker(t) ==
    /\ th[t].pc = "raster"
    /\ \E image_tr \in ImageTransforms :
          th' = [th EXCEPT ![t].pc = "convert",
                           ![t].image_tr = image_tr,
                           ![t].marker_trans = marker_trans(raster_bounding_box, image_tr)]
    /\ UNCHANGED <<props, others>> /\ UNCH_caches /\ UNCH_mutexes

\* raster_markers_dispatch and render_marker(image_rgba8 const&, ...), lines
\* 216-225: the image is drawn with the marker transform moved to the anchor
RasterRender(t) ==
    /\ th[t].pc = "raster_render"
    /\ LET matrix == translate(th[t].marker_trans, th[t].tr.tx, th[t].tr.ty)
       IN th' = [th EXCEPT ![t].pc = "dispatch",
                           ![t].writes = Append(@, [kind |-> "image",
                                  pix |-> {[part |-> "image", path |-> nullptr, ox |-> 0, oy |-> 0]},
                                  tr |-> matrix])]
    /\ UNCHANGED <<props, others>> /\ UNCH_caches /\ UNCH_mutexes

(***************************************************************************)
(* agg_markers_renderer_context::render_marker: the rendered-image cache.  *)
(***************************************************************************)
\* lines 94-98: the stroke margin (the stroke width is in pixels)
margin(a) ==
    IF a.stroke_flag \/ a.stroke_gradient THEN Abs(a.stroke_width) * Unit ELSE 0

\* the origin of the box without its stroke margin
x0_of_box(src, a) == Floor(bounding_box(src).minx)

\* lines 99-100
x0(src, a) == Floor(bounding_box(src).minx - margin(a))
y0(src, a) == Floor(bounding_box(src).miny - margin(a))

\* lines 106-107: std::floor(dx * sampling_rate)
sample(d) == (d * sampling_rate) \div Unit

\* a sample index with the two axes exchanged
sample_idx_transposed(tr) == sample(Frac(tr.tx)) * sampling_rate + sample(Frac(tr.ty))

\* lines 103-109: the sample index of the translation's sub-pixel offset
sample_idx(tr) == sample(Frac(tr.ty)) * sampling_rate + sample(Frac(tr.tx))

\* line 111
image_key(src, attrs, tr) == ImgKey(src, sample_idx(tr), attrs[1])

\* lines 135-137: the local transform of the scratch buffer
local_tr(src, a, tr) ==
    [tr EXCEPT !.tx = Frac(tr.tx) - x0(src, a), !.ty = Frac(tr.ty) - y0(src, a)]

\* std::ceil
Ceil(x) == -Floor(-x)

\* lines 126-127: the size of the scratch buffer
canvas_width(src, a) ==
    Ceil(bounding_box(src).maxx - bounding_box(src).minx + 2 * margin(a)) + 2 * Unit
canvas_height(src, a) ==
    Ceil(bounding_box(src).maxy - bounding_box(src).miny + 2 * margin(a)) + 2 * Unit

\* an image that is kept although every one of its pixels is zero
keep_zero_image(img) == img

\* lines 155-158 and 177-180: an image whose every pixel is zero is dropped
reset_if_zero(img) == IF img.pix = {} THEN NullImg ELSE img

\* a fill image rendered with the opacity and the composite mode of the
\* placement that misses
make_fill_img_blended(src, attrs, tr, params, comp_op) ==
    IF attrs[1].fill_flag \/ attrs[1].fill_gradient
    THEN reset_if_zero(Img(render_vector_marker(src,
             [attrs EXCEPT ![1].stroke_flag = FALSE, ![1].stroke_gradient = FALSE],
             local_tr(src, attrs[1], tr), params.opacity, comp_op)))
    ELSE NullImg

\* lines 140-159: the fill image, rendered with the stroke switched off, at
\* opacity 1.0 into a buffer of its own, whose pixel format (line 145) has
\* the default composite mode; params and comp_op are those of the placement
make_fill_img(src, attrs, tr, params, comp_op) ==
    IF attrs[1].fill_flag \/ attrs[1].fill_gradient
    THEN reset_if_zero(Img(render_vector_marker(src,
             [attrs EXCEPT ![1].stroke_flag = FALSE, ![1].stroke_gradient = FALSE],
             local_tr(src, attrs[1], tr), 100, "src_over")))
    ELSE NullImg

\* lines 162-181: the stroke image, rendered with the fill switched off
make_stroke_img(src, attrs, tr, params, comp_op) ==
    IF attrs[1].stroke_flag \/ attrs[1].stroke_gradient
    THEN reset_if_zero(Img(render_vector_marker(src,
             [attrs EXCEPT ![1].fill_flag = FALSE, ![1].fill_gradient = FALSE],
             local_tr(src, attrs[1], tr), 100, "src_over")))
    ELSE NullImg

\* the number of images rasterized on a miss
miss_rasterizations(attrs) ==
    B2I(attrs[1].fill_flag \/ attrs[1].fill_gradient)
    + B2I(attrs[1].stroke_flag \/ attrs[1].stroke_gradient)

\* lines 183-187: evict, then emplace
img_cache_insert(m, key, value) ==
    emplace(IF size(m) > cache_size THEN erase_begin_images(m) ELSE m, key, value)

\* a blitting transform that keeps the sub-pixel offset of the translation
blit_tr_keeping_offset(src, a, tr) == translate(tr, x0(src, a), y0(src, a))

\* a blitting transform that forgets the origin of the patch
blit_tr_without_origin(src, a, tr) == translate(tr, -Frac(tr.tx), -Frac(tr.ty))

\* lines 194-195: the blitting transform
blit_tr(src, a, tr) == translate(tr, x0(src, a) - Frac(tr.tx), y0(src, a) - Frac(tr.ty))

\* the two blits in the other order
blits_stroke_first(fill_img, stroke_img, btr, params, comp_op) ==
    (IF stroke_img.null THEN <<>>
     ELSE <<[kind |-> "blit", pix |-> stroke_img.pix, tr |-> btr,
             opacity |-> params.opacity, comp_op |-> comp_op]>>)
    \o (IF fill_img.null THEN <<>>
        ELSE <<[kind |-> "blit", pix |-> fill_img.pix, tr |-> btr,
                opacity |-> params.opacity, comp_op |-> comp_op]>>)

\* lines 198-205: a null image is not blitted; the fill goes first.  Each
\* image is drawn by render_raster_marker with params.opacity into renb_,
\* whose pixel format has the composite mode comp_op_.
blits(fill_img, stroke_img, btr, params, comp_op) ==
    (IF fill_img.null THEN <<>>
     ELSE <<[kind |-> "blit", pix |-> fill_img.pix, tr |-> btr,
             opacity |-> params.opacity, comp_op |-> comp_op]>>)
    \o (IF stroke_img.null THEN <<>>
        ELSE <<[kind |-> "blit", pix |-> stroke_img.pix, tr |-> btr,
                opacity |-> params.opacity, comp_op |-> comp_op]>>)

\* a lock of the image cache that is taken without waiting for its holder
ImgLock_without_wait(t) ==
    /\ th[t].pc = "img_lock"
    /\ context_mutex_' = t
    /\ th' = [th EXCEPT ![t].pc = "img_body"]
    /\ UNCHANGED <<props, others, visitor_mutex_>> /\ UNCH_caches

\* line 114: std::lock_guard<std::mutex> lock(mutex_)
ImgLock(t) ==
    /\ th[t].pc = "img_lock"
    /\ context_mutex_ = 0
    /\ context_mutex_' = t
    /\ th' = [th EXCEPT ![t].pc = "img_body"]
    /\ UNCHANGED <<props, others, visitor_mutex_>> /\ UNCH_caches

\* lines 116-206: lookup, on a miss rasterize, evict and insert, then blit;
\* the lock is released on return
ImgBody(t) ==
    /\ th[t].pc = "img_body"
    /\ LET src == th[t].marker_ptr
           attrs == th[t].r_attributes
           tr == th[t].tr
           params == markers_dispatch_params(props[th[t].sym], th[t].feat)
           comp_op == comp_op_(props[th[t].sym], th[t].feat)
           key == image_key(src, attrs, tr)
           hit == key \in DOMAIN cached_images_
           fill_img == IF hit THEN cached_images_[key].fill
                       ELSE make_fill_img(src, attrs, tr, params, comp_op)
           stroke_img == IF hit THEN cached_images_[key].stroke
                         ELSE make_stroke_img(src, attrs, tr, params, comp_op)
       IN /\ cached_images_' =
                 IF hit THEN cached_images_
                 ELSE img_cache_insert(cached_images_, key,
                                       [fill |-> fill_img, stroke |-> stroke_img])
          /\ th' = [th EXCEPT
                 ![t].pc = "dispatch",
                 ![t].img = [how |-> IF hit THEN "hit" ELSE "miss", key |-> key,
                             nraster |-> IF hit THEN 0 ELSE miss_rasterizations(attrs),
                             evicted |-> ~hit /\ size(cached_images_) > cache_size,
                             fill |-> fill_img, stroke |-> stroke_img],
                 ![t].writes = @ \o blits(fill_img, stroke_img, blit_tr(src, attrs[1], tr),
                                          params, comp_op)]
    /\ context_mutex_' = 0
    /\ UNCHANGED <<props, others, visitor_mutex_, cached_attributes_, cached_ellipses_>>

(***************************************************************************)
(* The renders of NumThreads threads, interleaved.                         *)
(***************************************************************************)
\* the steps of the visitor that take no input
VisitorStep(t) ==
    \/ VisitorLock(t)
    \/ AttrFind(t)
    \/ AttrResolve(t)
    \/ AttrInsert(t)
    \/ EllBranch(t)
    \/ EllFind(t)
    \/ EllBuild(t)
    \/ EllInsert(t)
    \/ RenderMarker(t)
    \/ EndDispatch(t)
    \/ Finish(t)

\* the steps of the cached rendering path
ContextStep(t) ==
    \/ ImgLock(t)
    \/ ImgBody(t)

\* Concurrent renders of two symbolizers whose properties stay as they are,
\* each render placing its marker unscaled or scaled.
CoreSyms == {1, 2}
CoreFeatures == {[size |-> 10, geom |-> "Point"]}
CoreTransforms == {T_10_3, T_scaled}

Next ==
    \/ \E t \in Threads, s \in CoreSyms, f \in CoreFeatures : Begin(t, s, f)
    \/ \E t \in Threads, tr \in CoreTransforms : Place(t, tr)
    \/ \E t \in Threads : VisitorStep(t)
    \/ \E t \in Threads : Fallback(t)
    \/ \E t \in Threads : ContextStep(t)

Spec == Init /\ [][Next]_vars

\* The renders of one thread, one after the other, of symbolizers whose
\* properties change between the renders (a change during the render of
\* another symbolizer commutes with the render's steps), for every feature;
\* the markers are placed scaled.
NextSeq ==
    \/ \E s \in Syms : \E pm \in SymProps(s) : th[1].pc = "idle" /\ Mutate(s, pm)
    \/ \E s \in Syms, f \in Features : Begin(1, s, f)
    \/ Place(1, T_scaled)
    \/ VisitorStep(1)
    \/ Fallback(1)
    \/ RasterMarker(1)
    \/ RasterRender(1)

SpecSeq == Init /\ [][NextSeq]_vars

\* The renders of one thread, one after the other, of the stock ellipse in
\* several styles and of a marker of two attribute records, for every placement.
ImgSymProps(s) ==
    IF s = 1 THEN {PStroke, PClear}
    ELSE IF s = 2 THEN {PWide}
    ELSE {PSvg}

InitImg == InitWith([s \in Syms |-> IF s = 1 THEN PStroke ELSE IF s = 2 THEN PWide ELSE PSvg])

NextImg ==
    \/ \E s \in Syms : \E pm \in ImgSymProps(s) : Mutate(s, pm)
    \/ \E s \in Syms, f \in CoreFeatures : Begin(1, s, f)
    \/ \E tr \in Transforms : Place(1, tr)
    \/ VisitorStep(1)
    \/ Fallback(1)
    \/ ContextStep(1)

SpecImg == InitImg /\ [][NextImg]_vars

\* The renders of one thread, one after the other, of three symbolizers
\* whose properties stay as they are, in two sub-pixel buckets.
NextEvict ==
    \/ \E s \in Syms, f \in CoreFeatures : Begin(1, s, f)
    \/ \E tr \in {T_10_3, T_neg, T_scaled} : Place(1, tr)
    \/ VisitorStep(1)
    \/ Fallback(1)
    \/ ContextStep(1)

SpecEvict == Init /\ [][NextEvict]_vars

\* The same renders, of an ellipse whose fill and stroke are both half
\* transparent, of a built ellipse and of a marker of two attribute records.
InitGlass == InitWith([s \in Syms |-> IF s = 1 THEN PGlass ELSE IF s = 2 THEN PWide ELSE PSvg])

SpecGlass == InitGlass /\ [][NextEvict]_vars

\* Concurrent renders of two symbolizers that differ in nothing but their
\* opacity and their composite mode, and so share their rendered images.
InitBlend == InitWith([s \in Syms |-> IF s = 1 THEN PSized ELSE IF s = 2 THEN PBlend ELSE PSvg])

SpecBlend == InitBlend /\ [][Next]_vars

\* Concurrent renders of one symbolizer under a fair scheduler: a thread
\* that can take a step takes one, and a thread that waits for a mutex that
\* is free again and again gets it.
LiveSyms == {1}

NextLive ==
    \/ \E t \in Threads, s \in LiveSyms, f \in CoreFeatures : Begin(t, s, f)
    \/ \E t \in Threads, tr \in CoreTransforms : Place(t, tr)
    \/ \E t \in Threads : VisitorStep(t)
    \/ \E t \in Threads : Fallback(t)
    \/ \E t \in Threads : ContextStep(t)

FairScheduling ==
    \A t \in Threads :
        /\ SF_vars(VisitorStep(t))
        /\ SF_vars(ContextStep(t))
        /\ WF_vars(Fallback(t))

SpecLive == Init /\ [][NextLive]_vars /\ FairScheduling

\* The renders of one thread of a sized ellipse, for every value of the
\* converter's properties and every geometry type.
ConvProps ==
    {[PSized EXCEPT !.clip = Lit(x[1]), !.offset = Lit(x[2]),
                    !.simplify_tolerance = Lit(x[3]), !.smooth = Lit(x[4]),
                    !.geometry_transform = IF x[5] = 1 THEN Lit(1) ELSE None] :
        x \in {0, 1} \X {0, 5, -5} \X {0, 1, -1} \X {0, 1} \X {0, 1}}

ConvFeatures == {[size |-> 10, geom |-> g] : g \in GeometryTypes}

InitConv ==
    \E pm \in ConvProps :
        InitWith([s \in Syms |-> IF s = 1 THEN pm ELSE IF s = 2 THEN PWide ELSE PTall])

NextConv ==
    \/ \E f \in ConvFeatures : Begin(1, 1, f)
    \/ VisitorStep(1)

SpecConv == InitConv /\ [][NextConv]_vars

\* The renders of one thread in one render job, of three symbolizers that
\* differ in allow_overlap and ignore_placement, at three anchors.
PNoOverlap == [PSized EXCEPT !.allow_overlap = None, !.ignore_placement = None]
PIgnored == [PStroke EXCEPT !.allow_overlap = None]
POverlap == [PTall EXCEPT !.ignore_placement = None]

InitPlace ==
    InitWith([s \in Syms |-> IF s = 1 THEN PNoOverlap ELSE IF s = 2 THEN PIgnored ELSE POverlap])

NextPlace ==
    \/ \E s \in Syms, f \in CoreFeatures : Begin(1, s, f)
    \/ \E tr \in {T_10_3, T_neg, T_scaled} : Place(1, tr)
    \/ VisitorStep(1)
    \/ Fallback(1)
    \/ ContextStep(1)

SpecPlace == InitPlace /\ [][NextPlace]_vars

(***************************************************************************)
(* interior.cpp: the pole of inaccessibility of a polygon.  A polygon is   *)
(* the sequence of its rings, the exterior ring first; a ring is the       *)
(* sequence of its points.  Coordinates and distances are integers.        *)
(***************************************************************************)
Pt(x, y) == [x |-> x, y |-> y]
Box(minx, miny, maxx, maxy) == [minx |-> minx, miny |-> miny, maxx |-> maxx, maxy |-> maxy]
width(b) == b.maxx - b.minx
height(b) == b.maxy - b.miny
Min(a, b) == IF a < b THEN a ELSE b
Max(a, b) == IF a > b THEN a ELSE b

\* std::sqrt, rounded down: the largest r of lo..hi with r * r <= n
RECURSIVE sqrt_between(_, _, _)
sqrt_between(n, lo, hi) ==
    IF lo >= hi THEN lo
    ELSE LET mid == (lo + hi + 1) \div 2 IN
         IF mid * mid <= n THEN sqrt_between(n, mid, hi)
         ELSE sqrt_between(n, lo, mid - 1)

sqrt(n) == sqrt_between(n, 0, Min(n, 40000))

\* n / d for d # 0, rounded down
Quot(n, d) == IF d > 0 THEN n \div d ELSE (-n) \div (-d)

\* What one division site does: it is evaluated or not, with this divisor.
Site(name, evaluated, divisor) ==
    [z |-> evaluated /\ divisor = 0,
     ev |-> IF evaluated THEN {name} ELSE {},
     sk |-> IF ~evaluated /\ divisor = 0 THEN {name} ELSE {}]

Join(a, b) == [z |-> a.z \/ b.z, ev |-> a.ev \cup b.ev, sk |-> a.sk \cup b.sk]

\* geometry::envelope of a ring; of an empty ring, the default box2d, which
\* is not valid (its width and height are negative).
envelope(ring) ==
    IF ring = <<>> THEN Box(1, 1, -1, -1)
    ELSE LET xs == {ring[i].x : i \in DOMAIN ring}
             ys == {ring[i].y : i \in DOMAIN ring}
         IN Box(CHOOSE x \in xs : \A o \in xs : x <= o,
                CHOOSE y \in ys : \A o \in ys : y <= o,
                CHOOSE x \in xs : \A o \in xs : x >= o,
                CHOOSE y \in ys : \A o \in ys : y >= o)

RECURSIVE Sum(_, _)
Sum(f, S) == IF S = {} THEN 0 ELSE LET e == CHOOSE e \in S : TRUE IN f[e] + Sum(f, S \ {e})

\* geometry::centroid: it fails on an empty polygon; of the convex and the
\* centrally holed polygons rendered here it is the mean of the corners of
\* the exterior ring.
centroid(polygon) ==
    LET ring == polygon[1]
        n == IF Len(ring) > 1 /\ ring[1] = ring[Len(ring)] THEN Len(ring) - 1 ELSE Len(ring)
    IN IF n = 0 THEN <<>>
       ELSE <<Pt(Sum([i \in 1..n |-> ring[i].x], 1..n) \div n,
                 Sum([i \in 1..n |-> ring[i].y], 1..n) \div n)>>

\* segment_dist_sq divides when the end points of the segment differ
segment_divides_always(dx, dy) == TRUE

segment_divides(dx, dy) == dx # 0 \/ dy # 0

\* the squared distance from p to the segment a b; t is num / den
segment_dist_sq(p, a, b) ==
    LET dx == b.x - a.x
        dy == b.y - a.y
        num == (p.x - a.x) * dx + (p.y - a.y) * dy
        den == dx * dx + dy * dy
        divides == segment_divides(dx, dy)
        at == IF ~divides \/ den = 0 \/ num <= 0 THEN a
              ELSE IF num > den THEN b
              ELSE Pt(a.x + (dx * num) \div den, a.y + (dy * num) \div den)
    IN [v |-> (p.x - at.x) * (p.x - at.x) + (p.y - at.y) * (p.y - at.y),
        divs |-> Site("segment", divides, den)]

\* std::numeric_limits<double>::infinity()
Inf == 1000000

\* the first operand of the && of the crossing test
straddles(point, a, b) == (a.y > point.y) # (b.y > point.y)

\* the loop of point_to_ring_dist from index i on; acc is inside, min_dist_sq
\* and the divisions so far
RECURSIVE ring_walk(_, _, _, _)
ring_walk(point, ring, i, acc) ==
    IF i > Len(ring) THEN acc
    ELSE LET a == ring[i]
             b == ring[IF i = 1 THEN Len(ring) ELSE i - 1]
             evaluated == straddles(point, a, b)
             den == b.y - a.y
             crossed == /\ evaluated
                        /\ den # 0
                        /\ point.x < Quot((b.x - a.x) * (point.y - a.y), den) + a.x
             seg == segment_dist_sq(point, a, b)
         IN ring_walk(point, ring, i + 1,
                [inside |-> IF crossed THEN ~acc.inside ELSE acc.inside,
                 min_dist_sq |-> Min(acc.min_dist_sq, seg.v),
                 divs |-> Join(acc.divs, Join(Site("crossing", evaluated, den), seg.divs))])

\* inside and min_dist_sq are passed by reference: acc holds them
point_to_ring_dist(point, ring, acc) == ring_walk(point, ring, 1, acc)

\* the loop of point_to_polygon_dist over the interior rings from index i on
RECURSIVE interior_rings(_, _, _, _)
interior_rings(point, polygon, i, acc) ==
    IF i > Len(polygon) THEN acc
    ELSE interior_rings(point, polygon, i + 1, point_to_ring_dist(point, polygon[i], acc))

point_to_polygon_dist(point, polygon) ==
    LET r == interior_rings(point, polygon, 2,
                 point_to_ring_dist(point, polygon[1],
                     [inside |-> FALSE, min_dist_sq |-> Inf, divs |-> NoDivs]))
    IN [v |-> (IF r.inside THEN 1 ELSE -1) * sqrt(r.min_dist_sq), divs |-> r.divs]

\* fitness_functor::operator(); max_size is the larger side of the envelope
fitness_functor(centroid_, max_size, cell_center, distance_polygon) ==
    IF distance_polygon <= 0 THEN [v |-> distance_polygon, divs |-> NoDivs]
    ELSE LET dx == cell_center.x - centroid_.x
             dy == cell_center.y - centroid_.y
             distance_centroid == sqrt(dx * dx + dy * dy)
         IN [v |-> IF max_size = 0 THEN 0
                   ELSE Quot(distance_polygon * (max_size - distance_centroid), max_size),
             divs |-> Site("fitness", TRUE, max_size)]

\* the constructor of cell
cell(c, h, polygon, centroid_, max_size) ==
    LET d == point_to_polygon_dist(c, polygon)
        f == fitness_functor(centroid_, max_size, c, d.v)
        mf == fitness_functor(centroid_, max_size, c, d.v + (h * 1414) \div 1000)
    IN [c |-> c, h |-> h, d |-> d.v, fitness |-> f.v, max_fitness |-> mf.v,
        divs |-> Join(d.divs, Join(f.divs, mf.divs))]

Square == <<Pt(0, 0), Pt(64, 0), Pt(64, 64), Pt(0, 64), Pt(0, 0)>>
Polygons ==
    { <<Square>>,
      <<<<Pt(0, 0), Pt(128, 0), Pt(128, 64), Pt(0, 64), Pt(0, 0)>>>>,
      <<<<Pt(-32, -32), Pt(32, -32), Pt(32, 32), Pt(-32, 32)>>>>,
      <<<<Pt(0, 0), Pt(96, 0), Pt(0, 96), Pt(0, 0)>>>>,
      <<<<Pt(0, 0), Pt(96, 0), Pt(96, 96), Pt(0, 96), Pt(0, 0)>>,
        <<Pt(32, 32), Pt(64, 32), Pt(64, 64), Pt(32, 64), Pt(32, 32)>>>>,
      <<<<Pt(0, 8), Pt(64, 8), Pt(0, 8)>>>>,
      <<<<Pt(8, 0), Pt(8, 64), Pt(8, 0)>>>>,
      <<<<Pt(5, 5)>>>>,
      <<<<>>>> }

ScaleFactors == {1, 2}

\* the return value of polylabel for an envelope without width or height
degenerate_at_center(bbox) == center(bbox)

degenerate_at(bbox) == Pt(bbox.minx, bbox.miny)

\* interior() calls polylabel, which runs to the end of its early returns.
\* computed tells whether geometry::centroid succeeds.
polylabel(polygon, scale_factor, computed) ==
    LET bbox == envelope(polygon[1])
        cell_size == Min(width(bbox), height(bbox))
        c == IF computed THEN centroid(polygon) ELSE <<>>
    IN
    /\ pl.pc \in {"idle", "done"}
    /\ pl' = IF cell_size = 0
             THEN [PlIdle EXCEPT !.pc = "done", !.polygon = polygon,
                                 !.precision = 10 * scale_factor,
                                 !.ret = degenerate_at(bbox)]
             ELSE IF c = <<>>
             THEN [PlIdle EXCEPT !.pc = "done", !.polygon = polygon,
                                 !.precision = 10 * scale_factor,
                                 !.ret = center(bbox)]
             ELSE [PlIdle EXCEPT !.pc = "cover", !.polygon = polygon,
                                 !.precision = 10 * scale_factor,
                                 !.centroid = c]
    /\ UNCHANGED <<props, th, box, conn, bucket>> /\ UNCH_caches /\ UNCH_mutexes

\* the cells of a set as the queue holds them, and the divisions they made
Pushed(cs) == {[k \in DOMAIN NoCell |-> c[k]] : c \in cs}
DivsOf(cs) ==
    [z |-> \E c \in cs : c.divs.z,
     ev |-> UNION {c.divs.ev : c \in cs},
     sk |-> UNION {c.divs.sk : c \in cs}]

\* polylabel covers the polygon with the initial cells and takes the
\* centroid as the first best cell.
polylabel_cover ==
    LET bbox == envelope(pl.polygon[1])
        cell_size == Min(width(bbox), height(bbox))
        h == cell_size \div 2
        max_size == Max(width(bbox), height(bbox))
        cs == {cell(Pt(x + h, y + h), h, pl.polygon, pl.centroid[1], max_size) :
                  x \in {x \in bbox.minx..(bbox.maxx - 1) : (x - bbox.minx) % cell_size = 0},
                  y \in {y \in bbox.miny..(bbox.maxy - 1) : (y - bbox.miny) % cell_size = 0}}
        best == cell(pl.centroid[1], 0, pl.polygon, pl.centroid[1], max_size)
    IN
    /\ pl.pc = "cover"
    /\ pl' = [pl EXCEPT !.pc = "search", !.queue = Pushed(cs), !.best = [k \in DOMAIN NoCell |-> best[k]],
                        !.cells = Cardinality(cs) + 1,
                        !.divs = Join(DivsOf(cs), best.divs)]
    /\ UNCHANGED <<props, th, box, conn, bucket>> /\ UNCH_caches /\ UNCH_mutexes

\* one iteration of the search loop of polylabel
polylabel_search ==
    LET bbox == envelope(pl.polygon[1])
        max_size == Max(width(bbox), height(bbox))
        current_cell == CHOOSE c \in pl.queue : \A o \in pl.queue : c.max_fitness >= o.max_fitness
        best_cell == IF current_cell.fitness > pl.best.fitness THEN current_cell ELSE pl.best
        h == current_cell.h \div 2
        cs == {cell(Pt(current_cell.c.x + sx * h, current_cell.c.y + sy * h), h,
                    pl.polygon, pl.centroid[1], max_size) : sx \in {-1, 1}, sy \in {-1, 1}}
    IN
    /\ pl.pc = "search"
    /\ pl.queue # {}
    /\ pl' = IF current_cell.max_fitness - best_cell.fitness <= pl.precision
             THEN [pl EXCEPT !.queue = pl.queue \ {current_cell}, !.best = best_cell]
             ELSE [pl EXCEPT !.queue = (pl.queue \ {current_cell}) \cup Pushed(cs),
                             !.best = best_cell,
                             !.cells = pl.cells + 4,
                             !.divs = Join(pl.divs, DivsOf(cs))]
    /\ UNCHANGED <<props, th, box, conn, bucket>> /\ UNCH_caches /\ UNCH_mutexes

\* the queue is empty: polylabel returns the centre of the best cell
polylabel_return ==
    /\ pl.pc = "search"
    /\ pl.queue = {}
    /\ pl' = [pl EXCEPT !.pc = "done", !.ret = pl.best.c]
    /\ UNCHANGED <<props, th, box, conn, bucket>> /\ UNCH_caches /\ UNCH_mutexes

NextInterior ==
    \/ \E polygon \in Polygons, s \in ScaleFactors, computed \in BOOLEAN :
           polylabel(polygon, s, computed)
    \/ polylabel_cover
    \/ polylabel_search
    \/ polylabel_return

SpecInterior == Init /\ [][NextInterior]_vars

(***************************************************************************)
(* box2d<T>, as box2d_test.cpp uses it.  Coordinates are fixed-point        *)
(* numbers, in steps of 1/Unit; those of a box2d<int> are whole numbers.   *)
(***************************************************************************)
MaxBoxOps == 1

\* static_cast<T>: the conversion to int drops the fraction
static_cast(T, v) == IF T = "int" THEN (IF v >= 0 THEN Floor(v) ELSE -Floor(-v)) ELSE v

\* box2d(minx, miny, maxx, maxy): init orders the coordinates
box2d(minx, miny, maxx, maxy) ==
    Box(Min(minx, maxx), Min(miny, maxy), Max(minx, maxx), Max(miny, maxy))

\* box2d::contains(x, y), with the boundary left out
contains_inside(b, x, y) == x > b.minx /\ x < b.maxx /\ y > b.miny /\ y < b.maxy

\* box2d::contains(x, y)
contains(b, x, y) == x >= b.minx /\ x <= b.maxx /\ y >= b.miny /\ y <= b.maxy

\* box2d::center()
box_center(T, b) == Pt(static_cast(T, center(b).x), static_cast(T, center(b).y))

\* box2d::operator*=, scaling about the corner (minx, miny)
times_about_corner(T, b, k) ==
    Box(b.minx, b.miny,
        b.minx + static_cast(T, width(b) * k), b.miny + static_cast(T, height(b) * k))

\* box2d::operator*=(t): half the scaled extent on each side of the center
times(T, b, k) ==
    LET c == box_center(T, b)
        sx == static_cast(T, (width(b) * k) \div 2)
        sy == static_cast(T, (height(b) * k) \div 2)
    IN Box(c.x - sx, c.y - sy, c.x + sx, c.y + sy)

\* box2d::clip, keeping the larger extent
clip_to_union(b, other) ==
    Box(Min(b.minx, other.minx), Min(b.miny, other.miny),
        Max(b.maxx, other.maxx), Max(b.maxy, other.maxy))

\* box2d::clip(other)
clip(b, other) ==
    Box(Max(b.minx, other.minx), Max(b.miny, other.miny),
        Min(b.maxx, other.maxx), Min(b.maxy, other.maxy))

\* The boxes of the test sections (the world, a region of it, the envelope
\* of the test, a box without extent), and boxes that overlap them.
DoubleBoxes ==
    { box2d(100 * Unit, 100 * Unit, 200 * Unit, 200 * Unit),
      box2d(100 * Unit, 100 * Unit, 100 * Unit, 100 * Unit),
      box2d(-180 * Unit, -90 * Unit, 180 * Unit, 90 * Unit),
      box2d(-120 * Unit, 40 * Unit, -110 * Unit, 48 * Unit),
      box2d(150 * Unit, 120 * Unit, 250 * Unit + 50, 180 * Unit),
      box2d(200 * Unit, 200 * Unit, 100 * Unit, 100 * Unit + 20) }

IntBoxes ==
    { box2d(100 * Unit, 100 * Unit, 100 * Unit, 100 * Unit),
      box2d(100 * Unit, 100 * Unit, 200 * Unit, 200 * Unit) }

BoxesOf(T) == IF T = "int" THEN IntBoxes ELSE DoubleBoxes

Coords == {50 * Unit - 10, 50 * Unit, 100 * Unit - 10, 100 * Unit, 150 * Unit,
           200 * Unit, 200 * Unit + 10, 250 * Unit, 250 * Unit + 10}

\* auto e = mapnik::box2d<T>(minx, miny, maxx, maxy)
envelope_init(T, b) ==
    /\ box' = [BoxIdle EXCEPT !.pc = "built", !.T = T, !.e = b, !.op = "init"]
    /\ UNCHANGED <<props, th, pl, conn, bucket>> /\ UNCH_caches /\ UNCH_mutexes

\* e.contains(x, y)
envelope_contains(x, y) ==
    /\ box.pc = "built"
    /\ box' = [box EXCEPT !.op = "contains",
                          !.pt = Pt(static_cast(box.T, x), static_cast(box.T, y)),
                          !.r = contains(box.e, static_cast(box.T, x), static_cast(box.T, y))]
    /\ UNCHANGED <<props, th, pl, conn, bucket>> /\ UNCH_caches /\ UNCH_mutexes

\* e.contains(e.center())
envelope_contains_center ==
    /\ box.pc = "built"
    /\ box' = [box EXCEPT !.op = "contains", !.pt = box_center(box.T, box.e),
                          !.r = contains(box.e, box_center(box.T, box.e).x,
                                         box_center(box.T, box.e).y)]
    /\ UNCHANGED <<props, th, pl, conn, bucket>> /\ UNCH_caches /\ UNCH_mutexes

\* e *= k
envelope_multiplication(k) ==
    /\ box.pc = "built"
    /\ box.n < MaxBoxOps
    /\ box' = [box EXCEPT !.op = "times", !.was = box.e, !.k = k,
                          !.e = times(box.T, box.e, k), !.n = box.n + 1]
    /\ UNCHANGED <<props, th, pl, conn, bucket>> /\ UNCH_caches /\ UNCH_mutexes

\* e1.clip(e2)
envelope_clipping(e2) ==
    /\ box.pc = "built"
    /\ box.n < MaxBoxOps
    /\ box' = [box EXCEPT !.op = "clip", !.was = box.e, !.arg = e2,
                          !.e = clip(box.e, e2), !.n = box.n + 1]
    /\ UNCHANGED <<props, th, pl, conn, bucket>> /\ UNCH_caches /\ UNCH_mutexes

NextBox ==
    \/ \E T \in {"int", "double"} : \E b \in BoxesOf(T) : envelope_init(T, b)
    \/ \E x \in Coords, y \in Coords : envelope_contains(x, y)
    \/ envelope_contains_center
    \/ \E k \in {1, 2, 5} : envelope_multiplication(k)
    \/ \E e2 \in BoxesOf(box.T) : envelope_clipping(e2)

SpecBox == Init /\ [][NextBox]_vars

(***************************************************************************)
(* postgis/connection.hpp: one Connection and the libpq handle it owns.    *)
(***************************************************************************)
MaxResults == 2

ResultStatuses == {"PGRES_TUPLES_OK", "PGRES_FATAL_ERROR"}

\* the results one query can leave pending
ResultSeqs == UNION {[1..n -> ResultStatuses] : n \in 0..MaxResults}

UNCH_renderer == UNCHANGED <<props, th>> /\ UNCH_caches /\ UNCH_mutexes

\* a call of libpq with conn_ as its argument
Calls(c, name) ==
    [c EXCEPT !.calls = Append(@, name), !.uaf = @ \/ c.handle = "finished"]

\* PQfinish(conn_): the handle is gone, with the results not yet read
PQfinish(c) ==
    [Calls(c, "PQfinish") EXCEPT !.handle = "finished", !.finishes = @ + 1,
                                 !.unread = Len(c.pending), !.pending = <<>>]

\* PQgetResult(conn_): the next pending result, null when there is none; of
\* a finished handle, whatever the freed memory yields (junk)
PQgetResult(c, junk) ==
    [result |-> IF c.handle = "finished" THEN junk
                ELSE IF c.pending = <<>> THEN "null" ELSE Head(c.pending),
     c |-> [Calls(c, "PQgetResult") EXCEPT
                !.pending = IF @ = <<>> THEN <<>> ELSE Tail(@)]]

\* PQclear(result)
PQclear(c) == [c EXCEPT !.calls = Append(@, "PQclear")]

\* PQexec(conn_, sql) and PQexecParams(conn_, sql, ...): libpq discards the
\* results still pending and runs the command
PQexec(c, name) == [Calls(c, name) EXCEPT !.pending = <<>>]

\* a close() that finishes the handle whether or not it is marked closed
close_again(c) == [PQfinish(c) EXCEPT !.closed_ = TRUE]

\* Connection::close()
close(c) == IF ~c.closed_ THEN [PQfinish(c) EXCEPT !.closed_ = TRUE] ELSE c

\* Connection::isOK()
isOK(c) == ~c.closed_ /\ c.status # "CONNECTION_BAD"

\* Connection::status(), its text aside: PQerrorMessage(conn_) unless conn_
\* is null
status(c) == IF c.handle = "none" THEN c ELSE Calls(c, "PQerrorMessage")

\* a clearAsyncResult that clears the result it is given and no other
clear_first_result(c, result) ==
    IF result = "null" THEN c ELSE [c EXCEPT !.calls = Append(@, "PQclear")]

\* Connection::clearAsyncResult(result): clears all pending results
RECURSIVE clearAsyncResult(_, _)
clearAsyncResult(c, result) ==
    IF result = "null" THEN c
    ELSE LET next == PQgetResult([c EXCEPT !.calls = Append(@, "PQclear")], "null")
         IN clearAsyncResult(next.c, next.result)

\* the member function op starts
Enter(c, op) ==
    [c EXCEPT !.op = op, !.raised = FALSE, !.ret = "none", !.calls = <<>>,
              !.result = "none"]

\* throw mapnik::datasource_exception out of an asynchronous member
Throw(c) == [c EXCEPT !.raised = TRUE, !.failed = TRUE]

\* the arguments of the constructor
ConnectionStrs == {<<"host=db dbname=gis">>, <<"host=db dbname=gis user=osm">>}
Passwords == {<<>>, <<"">>, <<"secret">>, <<"hunter2">>}

\* what PQerrorMessage reports of a handle that is not connected
StatusTexts == {"could not connect to server", "password authentication failed"}

\* lines 49-53: the string PQconnectdb is called with
connect_with_pass(connection_str, password) ==
    IF password # <<>> /\ password[1] # ""
    THEN connection_str \o <<" password=", password[1]>>
    ELSE connection_str

\* a message that quotes the string the connection was made with
connection_err_msg_with_pass(connection_str, password, text) ==
    <<"Postgis Plugin: ", text, "\nConnection string: '">>
    \o connect_with_pass(connection_str, password) \o <<"'\n">>

\* lines 57-61: the message of the exception; text is what status() returns
connection_err_msg(connection_str, password, text) ==
    <<"Postgis Plugin: ", text, "\nConnection string: '">> \o connection_str \o <<"'\n">>

\* Connection::Connection: PQconnectdb returns a connected handle (ok), a
\* handle that is not connected (bad) or, out of memory, no handle (null)
Connection(connection_str, password, outcome, text) ==
    /\ conn.pc \in {"none", "gone"}
    /\ LET made == [ConnIdle EXCEPT !.op = "Connection",
                                    !.calls = <<"PQconnectdb", "PQstatus">>,
                                    !.handle = IF outcome = "null" THEN "none" ELSE "open"]
           threw == status([made EXCEPT !.status = "CONNECTION_BAD"])
       IN conn' = IF outcome = "ok"
                  THEN [made EXCEPT !.pc = "live"]
                  ELSE [threw EXCEPT
                           !.raised = TRUE,
                           !.args = [connection_str |-> connection_str,
                                     password |-> password],
                           !.err_msg = connection_err_msg(connection_str, password,
                                           IF outcome = "null"
                                           THEN "Uninitialized connection" ELSE text)]
    /\ UNCHANGED <<pl, box, bucket>> /\ UNCH_renderer

\* Connection::~Connection
Destroy ==
    /\ conn.pc = "live"
    /\ LET c == Enter(conn, "~Connection")
       IN conn' = [(IF ~c.closed_ THEN [PQfinish(c) EXCEPT !.closed_ = TRUE] ELSE c)
                      EXCEPT !.pc = "gone"]
    /\ UNCHANGED <<pl, box, bucket>> /\ UNCH_renderer

\* the server goes away
ConnectionLost ==
    /\ conn.pc = "live"
    /\ conn.handle = "open"
    /\ conn.status = "CONNECTION_OK"
    /\ conn' = [conn EXCEPT !.status = "CONNECTION_BAD"]
    /\ UNCHANGED <<pl, box, bucket>> /\ UNCH_renderer

\* what PQexec returns: no result, or a result of one of these statuses
ExecResults == {"null", "PGRES_COMMAND_OK", "PGRES_TUPLES_OK", "PGRES_FATAL_ERROR"}

\* Connection::execute
execute(result) ==
    /\ conn.pc = "live"
    /\ conn' = [PQclear(PQexec(Enter(conn, "execute"), "PQexec")) EXCEPT
                   !.result = result,
                   !.ret = IF result = "PGRES_COMMAND_OK" THEN "true" ELSE "false"]
    /\ UNCHANGED <<pl, box, bucket>> /\ UNCH_renderer

\* an executeQuery that gives the connection up when the query fails
executeQuery_closing(type, result) ==
    /\ conn.pc = "live"
    /\ LET c == [PQexec(Enter(conn, "executeQuery"),
                        IF type = 1 THEN "PQexecParams" ELSE "PQexec")
                    EXCEPT !.result = result]
       IN conn' = IF result = "null" \/ result # "PGRES_TUPLES_OK"
                  THEN [close(IF result # "null" THEN PQclear(status(c)) ELSE status(c))
                           EXCEPT !.raised = TRUE]
                  ELSE [c EXCEPT !.ret = result]
    /\ UNCHANGED <<pl, box, bucket>> /\ UNCH_renderer

\* Connection::executeQuery
executeQuery(type, result) ==
    /\ conn.pc = "live"
    /\ LET c == [PQexec(Enter(conn, "executeQuery"),
                        IF type = 1 THEN "PQexecParams" ELSE "PQexec")
                    EXCEPT !.result = result]
       IN conn' = IF result = "null" \/ result # "PGRES_TUPLES_OK"
                  THEN [(IF result # "null" THEN PQclear(status(c)) ELSE status(c))
                           EXCEPT !.raised = TRUE]
                  ELSE [c EXCEPT !.ret = result]
    /\ UNCHANGED <<pl, box, bucket>> /\ UNCH_renderer

\* Connection::status, called by the owner of the connection
Status ==
    /\ conn.pc = "live"
    /\ conn' = [status(Enter(conn, "status")) EXCEPT !.ret = "text"]
    /\ UNCHANGED <<pl, box, bucket>> /\ UNCH_renderer

\* Connection::client_encoding
client_encoding ==
    /\ conn.pc = "live"
    /\ conn' = [Calls(Enter(conn, "client_encoding"), "PQparameterStatus") EXCEPT
                   !.ret = "text"]
    /\ UNCHANGED <<pl, box, bucket>> /\ UNCH_renderer

\* Connection::executeAsyncQuery: sent tells whether PQsendQuery returns 1,
\* which libpq refuses while results are pending or the connection is bad
executeAsyncQuery(sent, results, junk) ==
    /\ conn.pc = "live"
    /\ sent => \/ conn.handle = "finished"
               \/ conn.pending = <<>> /\ conn.status = "CONNECTION_OK"
    /\ LET c == Calls(Enter(conn, "executeAsyncQuery"), "PQsendQuery")
           got == PQgetResult(status(c), junk)
       IN conn' = IF sent
                  THEN [c EXCEPT !.pending = IF c.handle = "open" THEN results ELSE <<>>,
                                 !.ret = "true"]
                  ELSE Throw(close(clearAsyncResult(got.c, got.result)))
    /\ UNCHANGED <<pl, box, bucket>> /\ UNCH_renderer

\* line 164: the result getNextAsyncResult throws on
next_result_failed(result) == result # "null" /\ result # "PGRES_TUPLES_OK"

\* Connection::getNextAsyncResult
getNextAsyncResult(junk) ==
    /\ conn.pc = "live"
    /\ LET got == PQgetResult(Enter(conn, "getNextAsyncResult"), junk)
           c == [got.c EXCEPT !.result = got.result]
       IN conn' = IF next_result_failed(got.result)
                  THEN Throw(close(clearAsyncResult(status(c), got.result)))
                  ELSE [c EXCEPT !.ret = got.result]
    /\ UNCHANGED <<pl, box, bucket>> /\ UNCH_renderer

\* a test that lets a null result through
result_failed_unless_null(result) == result # "null" /\ result # "PGRES_TUPLES_OK"

\* line 181: the result getAsyncResult throws on
result_failed(result) == result = "null" \/ result # "PGRES_TUPLES_OK"

\* Connection::getAsyncResult
getAsyncResult(junk) ==
    /\ conn.pc = "live"
    /\ LET got == PQgetResult(Enter(conn, "getAsyncResult"), junk)
           c == [got.c EXCEPT !.result = got.result]
       IN conn' = IF result_failed(got.result)
                  THEN Throw(close(clearAsyncResult(status(c), got.result)))
                  ELSE [c EXCEPT !.ret = got.result]
    /\ UNCHANGED <<pl, box, bucket>> /\ UNCH_renderer

\* a caller closes the connection
Close ==
    /\ conn.pc = "live"
    /\ conn' = close(Enter(conn, "close"))
    /\ UNCHANGED <<pl, box, bucket>> /\ UNCH_renderer

Junk == {"null"} \cup ResultStatuses

NextConnection ==
    \/ \E connection_str \in ConnectionStrs, password \in Passwords,
          outcome \in {"ok", "bad", "null"}, text \in StatusTexts :
           Connection(connection_str, password, outcome, text)
    \/ Destroy
    \/ ConnectionLost
    \/ \E result \in ExecResults : execute(result)
    \/ \E type \in {0, 1}, result \in ExecResults : executeQuery(type, result)
    \/ Status
    \/ client_encoding
    \/ \E sent \in BOOLEAN, results \in ResultSeqs, junk \in Junk :
           executeAsyncQuery(sent, results, junk)
    \/ \E junk \in Junk : getNextAsyncResult(junk)
    \/ \E junk \in Junk : getAsyncResult(junk)
    \/ Close

SpecConnection == Init /\ [][NextConnection]_vars

(***************************************************************************)
(* Lines 103-109 of process_markers_symbolizer.cpp in binary floating      *)
(* point.  A double is a whole number of steps of 1 / Quanta; the result   *)
(* of an operation is rounded to MantissaBits significant bits (53 in the  *)
(* build), ties to even.                                                   *)
(***************************************************************************)
MantissaBits == 4
Quanta == 64

\* the spacing of the doubles at the magnitude of n, from the spacing u on
RECURSIVE ulp(_, _)
ulp(n, u) == IF Abs(n) < (2 ^ MantissaBits) * u THEN u ELSE ulp(n, 2 * u)

\* the double nearest to n
fl(n) ==
    LET u == ulp(n, 1)
        lo == (n \div u) * u
        hi == lo + u
    IN IF n - lo < hi - n THEN lo
       ELSE IF n - lo > hi - n THEN hi
       ELSE IF (lo \div u) % 2 = 0 THEN lo ELSE hi

\* the translations: the doubles between -2 and 2
Doubles == {n \in (-2 * Quanta)..(2 * Quanta) : fl(n) = n}

\* lines 103-104: marker_tr.tx - std::floor(marker_tr.tx)
sub_pixel(t) == fl(t - (t \div Quanta) * Quanta)

\* lines 106-107: std::floor(dx * sampling_rate)
sample_double(d) == fl(d * sampling_rate) \div Quanta

\* lines 103-109 for one translation
SubPixel(tx, ty) ==
    /\ bucket.pc = "idle"
    /\ bucket' = [pc |-> "done", tx |-> tx, ty |-> ty,
                  dx |-> sub_pixel(tx), dy |-> sub_pixel(ty),
                  sample_x |-> sample_double(sub_pixel(tx)),
                  sample_y |-> sample_double(sub_pixel(ty)),
                  sample_idx |-> sample_double(sub_pixel(ty)) * sampling_rate
                                 + sample_double(sub_pixel(tx))]
    /\ UNCHANGED <<pl, box, conn>> /\ UNCH_renderer

NextBucket == \E tx \in Doubles, ty \in Doubles : SubPixel(tx, ty)

SpecBucket == Init /\ [][NextBucket]_vars

TypeOK ==
    /\ visitor_mutex_ \in {0} \cup Threads
    /\ context_mutex_ \in {0} \cup Threads

(***************************************************************************)
(* Properties.                                                             *)
(***************************************************************************)

\* C1: after any sequence of cache operations the number of entries of each
\* cache is at most its configured bound (cache_size, attributes_cache_size,
\* ellipses_cache_size).
C1_SizeWithinBound ==
    /\ size(cached_images_) <= cache_size
    /\ size(cached_attributes_) <= attributes_cache_size
    /\ size(cached_ellipses_) <= ellipses_cache_size

\* a thread takes the step that leaves the program point pc
Leaves(t, pc) == th[t].pc = pc /\ th'[t].pc # pc

\* C2: an attribute-cache lookup returns a cached attribute set only when an
\* entry exists under the symbolizer's identity and its stored property map
\* equals the symbolizer's current one; what it returns is what a fresh
\* resolution under the current properties gives, and a lookup that finds an
\* entry of other properties goes on to resolve the attributes afresh.
C2_AttrHitOnlyOnEqualProps ==
    [][\A t \in Threads :
          Leaves(t, "attr_find") =>
              LET s == th[t].sym
                  fresh == get_marker_attributes(th[t].marker_ptr, props[s], th[t].feat)
              IN /\ th'[t].attr = "hit" =>
                       /\ s \in DOMAIN cached_attributes_
                       /\ cached_attributes_[s].props = props[s]
                       /\ th'[t].r_attributes = cached_attributes_[s].attrs
                       /\ th'[t].r_attributes = fresh
                 /\ (s \in DOMAIN cached_attributes_ /\ cached_attributes_[s].props # props[s]) =>
                       /\ th'[t].attr = "miss"
                       /\ th'[t].pc = "attr_resolve"
                       /\ th'[t].r_attributes = <<>>]_vars

\* C2 witness: a lookup has missed although an entry exists under the
\* symbolizer's identity, because a property changed since it was stored.
C2_Witness ==
    \E t \in Threads :
        /\ th[t].pc = "attr_resolve"
        /\ th[t].attr = "miss"
        /\ th[t].sym \in DOMAIN cached_attributes_
        /\ cached_attributes_[th[t].sym].props # props[th[t].sym]
        /\ cached_attributes_[th[t].sym].attrs #
               get_marker_attributes(th[t].marker_ptr, props[th[t].sym], th[t].feat)

\* the placement has one attribute record, unit scale and no shear
UnitPlacement(l) ==
    /\ Len(l.r_attributes) = 1
    /\ l.tr.sx = Unit /\ l.tr.sy = Unit
    /\ l.tr.shx = 0 /\ l.tr.shy = 0

\* C3: the rendered-image cache is consulted or populated only for a marker
\* of one attribute record placed with unit scale and no shear; every other
\* placement leaves the cache unchanged and is rasterized directly into the
\* destination, once for each placement.
C3_CacheOnlyForUnitPlacements ==
    [][\A t \in Threads :
          /\ Leaves(t, "dispatch") /\ th'[t].pc # "ret" =>
                (th'[t].pc = "img_lock") = UnitPlacement(th'[t])
          /\ Leaves(t, "img_body") => UnitPlacement(th[t])
          /\ cached_images_' # cached_images_ =>
                \E u \in Threads : Leaves(u, "img_body") /\ UnitPlacement(th[u])
          /\ Leaves(t, "fallback") =>
                /\ ~UnitPlacement(th[t])
                /\ cached_images_' = cached_images_
                /\ th'[t].img.how = "direct"
                /\ th'[t].img.nraster = 1
                /\ th'[t].writes =
                       <<[kind |-> "vector", tr |-> th[t].tr,
                          pix |-> render_vector_marker(th[t].marker_ptr,
                                     th[t].r_attributes, th[t].tr,
                                     markers_dispatch_params(props[th[t].sym], th[t].feat).opacity,
                                     comp_op_(props[th[t].sym], th[t].feat))]>>]_vars

\* C3 witness: a marker of one attribute record has been placed at scale 2
\* while the cache holds entries, and was rasterized directly.
C3_Witness ==
    \E t \in Threads :
        /\ th[t].img.how = "direct"
        /\ th[t].img.nraster = 1
        /\ Len(th[t].r_attributes) = 1
        /\ th[t].tr.sx = 2 * Unit
        /\ cached_images_ # EmptyMap

\* C4: the bucket index of a cacheable placement is floor(fy*S)*S + floor(fx*S)
\* for the fractional parts (fx, fy) of its translation: 42 for a placement
\* at (10.3, 10.7) and for one at (10.35, 10.72).  A lookup whose key is in
\* the cache is a hit that rasterizes nothing, the key of a lookup is in the
\* cache afterwards, and the cache changes only by the insertion of a miss:
\* the placement at (10.35, 10.72) that follows one of the same marker and
\* attribute record at (10.3, 10.7) is a hit.
C4_BucketIndex ==
    [][\A t \in Threads :
          /\ Leaves(t, "img_body") =>
                LET tr == th[t].tr
                    fx == tr.tx - (tr.tx \div Unit) * Unit
                    fy == tr.ty - (tr.ty \div Unit) * Unit
                    key == th'[t].img.key
                IN /\ key.idx = ((fy * 8) \div Unit) * 8 + ((fx * 8) \div Unit)
                   /\ key.src = th[t].marker_ptr
                   /\ key.attr = th[t].r_attributes[1]
                   /\ (tr.tx = 1030 /\ tr.ty = 1070) => key.idx = 42
                   /\ (tr.tx = 1035 /\ tr.ty = 1072) => key.idx = 42
                   /\ key \in DOMAIN cached_images_ =>
                         /\ th'[t].img.how = "hit"
                         /\ th'[t].img.nraster = 0
                         /\ cached_images_' = cached_images_
                   /\ key \in DOMAIN cached_images_'
          /\ cached_images_' # cached_images_ =>
                \E u \in Threads : Leaves(u, "img_body") /\ th'[u].img.how = "miss"]_vars

\* C4 witness: a placement at (10.35, 10.72) has hit, in bucket 42, the entry
\* that a placement at (10.3, 10.7) created.
C4_Witness ==
    \E t \in Threads :
        /\ th[t].img.how = "hit"
        /\ th[t].tr = T_10_35
        /\ th[t].img.key.idx = 42
        /\ th[t].img.nraster = 0
        /\ \E d \in th[t].img.fill.pix :
              d.ox = 30 - x0(th[t].marker_ptr, th[t].r_attributes[1])

\* where a blitted drawing appears in the destination, less the translation
\* that was asked for
OffsetX(l, w, d) == (w.tr.tx + d.ox) - l.tr.tx
OffsetY(l, w, d) == (w.tr.ty + d.oy) - l.tr.ty

\* C5: a hit composites exactly the fill and stroke patches stored by the miss
\* that created the entry, and the shape appears in the destination less than
\* 1/S pixel from the requested translation on each axis; on a miss it
\* appears exactly at the requested translation.
C5_HitReusesPatches ==
    [][\A t \in Threads :
          Leaves(t, "img_body") =>
              LET l == th'[t]
                  key == l.img.key
              IN /\ l.img.how = "hit" =>
                       /\ l.img.fill = cached_images_[key].fill
                       /\ l.img.stroke = cached_images_[key].stroke
                 /\ {l.writes[i].pix : i \in DOMAIN l.writes} =
                       {p.pix : p \in {q \in {l.img.fill, l.img.stroke} : ~q.null}}
                 /\ \A i \in DOMAIN l.writes : \A d \in l.writes[i].pix :
                       /\ Abs(OffsetX(l, l.writes[i], d)) * sampling_rate < Unit
                       /\ Abs(OffsetY(l, l.writes[i], d)) * sampling_rate < Unit
                       /\ l.img.how = "miss" =>
                             OffsetX(l, l.writes[i], d) = 0 /\ OffsetY(l, l.writes[i], d) = 0]_vars

\* C5 witness: a hit has composited a patch that was rasterized at another
\* offset of the same bucket.
C5_Witness ==
    \E t \in Threads :
        /\ th[t].img.how = "hit"
        /\ th[t].writes # <<>>
        /\ \E i \in DOMAIN th[t].writes : \E d \in th[t].writes[i].pix :
              OffsetX(th[t], th[t].writes[i], d) # 0

\* C10: a fill or stroke patch whose every pixel is zero is stored as absent;
\* an entry with absent patches is a hit like any other; an absent patch is
\* not composited, on the miss and on every hit, so a placement whose two
\* patches are absent writes nothing to the destination.
C10_AbsentPatches ==
    [][\A t \in Threads :
          Leaves(t, "img_body") =>
              LET l == th'[t]
                  key == l.img.key
                  a == th[t].r_attributes[1]
                  ltr == [th[t].tr EXCEPT !.tx = Frac(th[t].tr.tx) - x0(key.src, a),
                                          !.ty = Frac(th[t].tr.ty) - y0(key.src, a)]
                  fill_zero == render_vector_marker(key.src,
                                   <<[a EXCEPT !.stroke_flag = FALSE, !.stroke_gradient = FALSE]>>, ltr,
                                   100, "src_over") = {}
                  stroke_zero == render_vector_marker(key.src,
                                   <<[a EXCEPT !.fill_flag = FALSE, !.fill_gradient = FALSE]>>, ltr,
                                   100, "src_over") = {}
              IN /\ l.img.how = "miss" =>
                       /\ fill_zero => cached_images_'[key].fill = NullImg
                       /\ stroke_zero => cached_images_'[key].stroke = NullImg
                 /\ \A k \in DOMAIN cached_images_' :
                       /\ ~cached_images_'[k].fill.null => cached_images_'[k].fill.pix # {}
                       /\ ~cached_images_'[k].stroke.null => cached_images_'[k].stroke.pix # {}
                 /\ key \in DOMAIN cached_images_ => l.img.how = "hit"
                 /\ Len(l.writes) = B2I(~l.img.fill.null) + B2I(~l.img.stroke.null)
                 /\ (l.img.fill.null /\ l.img.stroke.null) => l.writes = <<>>]_vars

\* C10 witness: a placement has hit an entry whose fill was rasterized to
\* zero pixels and whose stroke was not rasterized, and wrote nothing.
C10_Witness ==
    \E t \in Threads :
        /\ th[t].img.how = "hit"
        /\ th[t].img.key.attr.fill_flag
        /\ th[t].img.fill.null /\ th[t].img.stroke.null
        /\ th[t].writes = <<>>

\* the program points between a lookup that missed and the thread's own
\* insertion of the key
AttrMissPending == {"attr_resolve", "attr_ins_lock", "attr_insert"}
EllMissPending == {"ell_build", "ell_ins_lock", "ell_insert"}

\* C6: for each of the three caches the lookup and the build, evict and
\* insert that follow a miss are one critical section: between a thread's
\* miss on a key and its own insertion of that key, no other thread reads
\* or changes that cache.
C6_LookupAndInsertAtomic ==
    [][\A t \in Threads : \A u \in Threads \ {t} :
          /\ th[t].pc \in AttrMissPending =>
                ~(Leaves(u, "attr_find") \/ Leaves(u, "attr_insert"))
          /\ th[t].pc \in EllMissPending =>
                ~(Leaves(u, "ell_find") \/ Leaves(u, "ell_insert"))
          /\ th[t].pc = "img_body" => ~Leaves(u, "img_body")]_vars

\* the program points whose step reads or changes a cache map
VisitorAccess == {"attr_find", "attr_insert", "ell_find", "ell_insert"}
ContextAccess == {"img_body"}

\* C7: every find, erase, insert and overwrite of a shared cache map is done
\* by a thread that holds the mutex guarding the map, so no two threads are
\* at an access of the same map at the same time.
C7_AccessUnderMutex ==
    /\ \A t \in Threads :
          /\ th[t].pc \in VisitorAccess => visitor_mutex_ = t
          /\ th[t].pc \in ContextAccess => context_mutex_ = t
    /\ \A t \in Threads : \A u \in Threads \ {t} :
          /\ ~(th[t].pc \in VisitorAccess /\ th[u].pc \in VisitorAccess)
          /\ ~(th[t].pc \in ContextAccess /\ th[u].pc \in ContextAccess)

\* C7 witness: one thread is about to insert into the attribute cache while
\* another waits for the mutex to look up, and likewise at the image cache.
C7_Witness ==
    \E t \in Threads : \E u \in Threads \ {t} :
        /\ th[t].pc = "attr_insert" /\ visitor_mutex_ = t
        /\ th[u].pc \in {"attr_lock", "ell_lock", "ell_ins_lock"}

\* the entries of m that are gone from n
Removed(m, n) == DOMAIN m \ DOMAIN n

\* an insertion step on map m with bound b, giving n
InsertionWithinContract(m, n, b) ==
    /\ size(m) > b => Cardinality(Removed(m, n)) <= 1
    /\ size(m) <= b => Removed(m, n) = {}
    /\ size(n) >= size(m)

\* C8: an insertion step removes exactly one prior entry when the cache is
\* past its bound and none otherwise, and never leaves the cache with fewer
\* entries than it held before the step.
C8_InsertionNeverShrinks ==
    [][\A t \in Threads :
          /\ Leaves(t, "attr_insert") =>
                InsertionWithinContract(cached_attributes_, cached_attributes_',
                                        attributes_cache_size)
          /\ Leaves(t, "ell_insert") =>
                InsertionWithinContract(cached_ellipses_, cached_ellipses_',
                                        ellipses_cache_size)
          /\ (Leaves(t, "img_body") /\ th'[t].img.how = "miss") =>
                InsertionWithinContract(cached_images_, cached_images_', cache_size)]_vars

\* every key that is gone from the map was the smallest of its keys
OnlySmallestSymLeaves(m, n) ==
    \A k \in Removed(m, n) : \A j \in DOMAIN m \ {k} : k < j
OnlySmallestEllLeaves(m, n) ==
    \A k \in Removed(m, n) : \A j \in DOMAIN m \ {k} : LexLess(k, j)
OnlySmallestImgLeaves(m, n) ==
    \A k \in Removed(m, n) : \A j \in DOMAIN m \ {k} :
        LexLess(<<k.src.id, k.src.w, k.src.h, k.src.sw, k.idx>> \o AttrTuple(k.attr),
                <<j.src.id, j.src.w, j.src.h, j.src.sw, j.idx>> \o AttrTuple(j.attr))

\* C9: an entry leaves a cache only by an eviction, and the entry evicted is
\* the one of the smallest key at that moment; a hit changes nothing in the
\* cache, so hits never change which entry is evicted next.
C9_SmallestKeyEvicted ==
    [][/\ OnlySmallestSymLeaves(cached_attributes_, cached_attributes_')
       /\ OnlySmallestEllLeaves(cached_ellipses_, cached_ellipses_')
       /\ OnlySmallestImgLeaves(cached_images_, cached_images_')
       /\ \A t \in Threads :
             /\ Leaves(t, "attr_find") => cached_attributes_' = cached_attributes_
             /\ Leaves(t, "ell_find") => cached_ellipses_' = cached_ellipses_
             /\ (Leaves(t, "img_body") /\ th'[t].img.how = "hit") =>
                   cached_images_' = cached_images_
             /\ (Leaves(t, "img_body") /\ th'[t].img.evicted) =>
                   /\ Cardinality(Removed(cached_images_, cached_images_')) = 1
                   /\ th'[t].img.how = "miss"]_vars

\* C9 witness: a miss has evicted from the rendered-image cache while the
\* attribute cache and the ellipse cache are past their bounds too.
C9_Witness ==
    \E t \in Threads :
        /\ th[t].img.evicted
        /\ size(cached_attributes_) > attributes_cache_size
        /\ size(cached_ellipses_) > ellipses_cache_size

\* the remainder of quantizing the fractional part d to a bucket of 1/S
\* pixel, times S
QuantRemainderS(d) == d * sampling_rate - ((d * sampling_rate) \div Unit) * Unit

\* C11 (as stated): on a hit and on a miss alike the translation of the blit
\* transform is the original translation less only the quantization
\* remainder (and moved to the patch origin), so that the sub-pixel part of
\* the original translation stays in the blit transform.
C11_BlitKeepsSubpixel ==
    [][\A t \in Threads :
          Leaves(t, "img_body") =>
              LET l == th'[t]
                  a == th[t].r_attributes[1]
                  ox == x0(th[t].marker_ptr, a)
                  oy == y0(th[t].marker_ptr, a)
              IN \A i \in DOMAIN l.writes :
                    /\ (th[t].tr.tx - (l.writes[i].tr.tx - ox)) * sampling_rate
                           = QuantRemainderS(Frac(th[t].tr.tx))
                    /\ (th[t].tr.ty - (l.writes[i].tr.ty - oy)) * sampling_rate
                           = QuantRemainderS(Frac(th[t].tr.ty))]_vars

\* C11 (amended): on a hit and on a miss alike the patches are blitted with
\* the placement's transform moved by the patch origin less the whole
\* fractional part of the translation: the blit translation is
\* floor(t) + origin, a whole number of pixels, with the scale and shear of
\* the placement; the sub-pixel part is in the patch, not in the transform.
C11_BlitDropsSubpixel ==
    [][\A t \in Threads :
          Leaves(t, "img_body") =>
              LET l == th'[t]
                  a == th[t].r_attributes[1]
                  ox == x0(th[t].marker_ptr, a)
                  oy == y0(th[t].marker_ptr, a)
              IN \A i \in DOMAIN l.writes :
                    /\ l.writes[i].tr.tx = (th[t].tr.tx \div Unit) * Unit + ox
                    /\ l.writes[i].tr.ty = (th[t].tr.ty \div Unit) * Unit + oy
                    /\ l.writes[i].tr.tx % Unit = 0
                    /\ l.writes[i].tr.ty % Unit = 0
                    /\ [l.writes[i].tr EXCEPT !.tx = 0, !.ty = 0]
                           = [th[t].tr EXCEPT !.tx = 0, !.ty = 0]]_vars

\* C11 witness: a placement at a translation with a sub-pixel part has hit
\* and blitted a patch with a whole-pixel translation.
C11_Witness ==
    \E t \in Threads :
        /\ th[t].img.how = "hit"
        /\ Frac(th[t].tr.tx) # 0 /\ Frac(th[t].tr.ty) # 0
        /\ th[t].writes # <<>>
        /\ \A i \in DOMAIN th[t].writes :
              /\ th[t].writes[i].tr.tx % Unit = 0
              /\ th[t].writes[i].tr.tx # Floor(th[t].tr.tx)

\* C12: in the cached rendering path, when both a fill patch and a stroke
\* patch are present, the destination receives the fill patch first and the
\* stroke patch second, on a miss as on a hit.
C12_FillBeforeStroke ==
    [][\A t \in Threads :
          (/\ Leaves(t, "img_body")
           /\ ~th'[t].img.fill.null
           /\ ~th'[t].img.stroke.null) =>
              LET w == th'[t].writes
              IN /\ Len(w) = 2
                 /\ w[1].pix = th'[t].img.fill.pix
                 /\ w[2].pix = th'[t].img.stroke.pix
                 /\ \A d \in w[1].pix : d.part = "fill"
                 /\ \A d \in w[2].pix : d.part = "stroke"]_vars

\* C12 witness: a hit has written a fill patch and then a stroke patch.
C12_Witness ==
    \E t \in Threads :
        /\ th[t].img.how = "hit"
        /\ Len(th[t].writes) = 2
        /\ \E d \in th[t].writes[1].pix : d.part = "fill"
        /\ \E d \in th[t].writes[2].pix : d.part = "stroke"

\* some property of the map is an expression
HasExpression(pm) == \E k \in DOMAIN pm : pm[k].kind = "expr"

\* C13: the attribute cache changes only by the insertion of a render whose
\* symbolizer has no expression among its properties, so no entry holds an
\* expression; a render whose symbolizer has an expression misses at the
\* lookup, resolves the attributes on its feature and leaves the cache
\* unchanged.
C13_AttrCachedOnlyWithoutExpression ==
    [][/\ cached_attributes_' # cached_attributes_ =>
             \E t \in Threads :
                 /\ Leaves(t, "attr_insert")
                 /\ ~HasExpression(props[th[t].sym])
                 /\ cached_attributes_'[th[t].sym] =
                        [attrs |-> th[t].r_attributes, props |-> props[th[t].sym]]
       /\ \A k \in DOMAIN cached_attributes_' : ~HasExpression(cached_attributes_'[k].props)
       /\ \A t \in Threads :
             /\ (Leaves(t, "attr_find") /\ HasExpression(props[th[t].sym])) =>
                   th'[t].attr = "miss" /\ th'[t].pc = "attr_resolve"
             /\ Leaves(t, "attr_resolve") =>
                   /\ th'[t].r_attributes =
                          get_marker_attributes(th[t].marker_ptr, props[th[t].sym], th[t].feat)
                   /\ cached_attributes_' = cached_attributes_
                   /\ HasExpression(props[th[t].sym]) => th'[t].pc = "ell_branch"
                   /\ ~HasExpression(props[th[t].sym]) => th'[t].pc = "attr_ins_lock"]_vars

\* C13 witness: a render of a symbolizer whose stroke width is an expression
\* has resolved its attributes on a feature of size 20 and gone on without
\* an insertion, while the cache holds the entry stored for the symbolizer
\* when its properties were literals.
C13_Witness ==
    \E t \in Threads :
        /\ th[t].pc = "ell_branch"
        /\ th[t].attr = "miss"
        /\ HasExpression(props[th[t].sym])
        /\ th[t].feat.size = 20
        /\ th[t].r_attributes[1].stroke_width = 20
        /\ th[t].sym \in DOMAIN cached_attributes_
        /\ ~HasExpression(cached_attributes_[th[t].sym].props)

\* C14: of two requests in a row for an ellipse of the same (width, height,
\* stroke-width), the second returns the object the first built and cached:
\* the insertion that ends the first request leaves the built object in the
\* cache under its key, an entry is never replaced by another object while it
\* stays, the cache changes by insertions only, and a lookup whose key is in
\* the cache returns the cached object and builds nothing.
C14_SecondRequestSameObject ==
    [][/\ \A t \in Threads :
             /\ Leaves(t, "ell_insert") =>
                   /\ th[t].marker_key \in DOMAIN cached_ellipses_'
                   /\ cached_ellipses_'[th[t].marker_key] = th[t].marker_ptr
                   /\ th'[t].marker_ptr = th[t].marker_ptr
                   /\ th'[t].pc = "convert"
             /\ (Leaves(t, "ell_find") /\ th[t].marker_key \in DOMAIN cached_ellipses_) =>
                   /\ th'[t].ell = "hit"
                   /\ th'[t].marker_ptr = cached_ellipses_[th[t].marker_key]
                   /\ th'[t].marker_ptr # nullptr
                   /\ th'[t].pc = "convert"
             /\ Leaves(t, "ell_build") =>
                   /\ th[t].ell = "miss"
                   /\ th[t].marker_key \notin DOMAIN cached_ellipses_
       /\ \A k \in DOMAIN cached_ellipses_ \cap DOMAIN cached_ellipses_' :
             cached_ellipses_'[k] = cached_ellipses_[k]
       /\ cached_ellipses_' # cached_ellipses_ => \E t \in Threads : Leaves(t, "ell_insert")]_vars

\* C14 witness: a request for the ellipse of width 10, height 10 and stroke
\* width 2 has hit and holds the object an earlier request built, which the
\* cache holds under the key.
C14_Witness ==
    \E t \in Threads :
        /\ th[t].pc = "dispatch"
        /\ th[t].ell = "hit"
        /\ th[t].marker_key = <<10, 10, 2>>
        /\ <<10, 10, 2>> \in DOMAIN cached_ellipses_
        /\ th[t].marker_ptr = cached_ellipses_[<<10, 10, 2>>]
        /\ th[t].marker_ptr.id # 0
        /\ th[t].marker_ptr.w = 10

\* the program points of the ellipse cache
EllipsePath == {"ell_lock", "ell_find", "ell_build", "ell_ins_lock", "ell_insert"}

\* the render is of the ellipse sentinel with a width or a height property
SizedEllipse(l) ==
    /\ l.filename = "shape://ellipse"
    /\ props[l.sym].width.kind # "none" \/ props[l.sym].height.kind # "none"

\* C15: a render goes to the ellipse cache exactly when its source is
\* "shape://ellipse" and its symbolizer has a width or a height; every other
\* render keeps the path of the stock marker the registry gave it; the
\* ellipse cache is read and changed by renders of the first kind only.
C15_EllipseCacheExactlyForSizedEllipse ==
    [][/\ \A t \in Threads :
             /\ Leaves(t, "ell_branch") =>
                   /\ (th'[t].pc = "ell_lock") = SizedEllipse(th[t])
                   /\ ~SizedEllipse(th[t]) =>
                         /\ th'[t].pc = "convert"
                         /\ th'[t].marker_ptr = th[t].marker_ptr
                         /\ th'[t].marker_ptr \in {StockEllipse, StockSvg}
                         /\ th'[t].ell = "none"
             /\ th[t].pc \in EllipsePath => SizedEllipse(th[t])
             /\ (/\ th[t].pc \in {"convert", "dispatch"}
                 /\ find_marker(th[t].filename).type = "svg"
                 /\ ~SizedEllipse(th[t])) =>
                   th[t].marker_ptr \in {StockEllipse, StockSvg} /\ th[t].ell = "none"
       /\ cached_ellipses_' # cached_ellipses_ =>
             \E t \in Threads : Leaves(t, "ell_insert") /\ SizedEllipse(th[t])]_vars

\* C15 witness: a render of the ellipse sentinel with a stroke width and
\* neither width nor height, or of another source with a width, is at the
\* dispatch with the stock path while the ellipse cache has entries.
C15_Witness ==
    \E t \in Threads :
        /\ th[t].pc = "dispatch"
        /\ cached_ellipses_ # EmptyMap
        /\ \/ /\ th[t].filename = "shape://ellipse"
              /\ props[th[t].sym].stroke_width.kind # "none"
              /\ th[t].marker_ptr = StockEllipse
           \/ /\ th[t].filename = "marker.svg"
              /\ props[th[t].sym].width.kind # "none"
              /\ th[t].marker_ptr = StockSvg

\* the program points at which a thread waits for a mutex
VisitorWait == {"attr_lock", "attr_ins_lock", "ell_lock", "ell_ins_lock"}
ContextWait == {"img_lock"}

\* a thread holds a mutex only at an access of the maps it guards, from
\* which it goes on without waiting, and never while it waits for a mutex
NoHoldAndWait ==
    \A t \in Threads :
        /\ th[t].pc \in VisitorWait \cup ContextWait =>
              visitor_mutex_ # t /\ context_mutex_ # t
        /\ visitor_mutex_ = t => th[t].pc \in VisitorAccess /\ context_mutex_ # t
        /\ context_mutex_ = t => th[t].pc \in ContextAccess /\ visitor_mutex_ # t
        /\ th[t].pc = "idle" => visitor_mutex_ # t /\ context_mutex_ # t

ConverterTags ==
    {"clip_poly", "clip_line", "transform", "offset_transform", "affine_transform",
     "simplify", "smooth"}

\* C18: the stages enabled for a feature are exactly: the coordinate
\* transform and the affine transform always (the affine transform being the
\* identity when the symbolizer has no geometry transform); the polygon clip
\* when clip is set and the geometry is a Polygon or MultiPolygon; the line
\* clip when clip is set and the geometry is a LineString or MultiLineString;
\* the offset when the offset is not zero; the simplification when the
\* tolerance is above zero; the smoothing when the factor is above zero.
C18_EnabledStages ==
    [][\A t \in Threads :
          Leaves(t, "convert") =>
              LET pm == props[th[t].sym]
                  g == th[t].feat.geom
                  st == th'[t].stages
                  val(k) == IF pm[k].kind = "lit" THEN pm[k].v ELSE 0
              IN /\ st \subseteq ConverterTags
                 /\ "transform" \in st
                 /\ "affine_transform" \in st
                 /\ ("clip_poly" \in st) = (val("clip") = 1 /\ g \in {"Polygon", "MultiPolygon"})
                 /\ ("clip_line" \in st) =
                        (val("clip") = 1 /\ g \in {"LineString", "MultiLineString"})
                 /\ ("offset_transform" \in st) = (val("offset") # 0)
                 /\ ("simplify" \in st) = (val("simplify_tolerance") > 0)
                 /\ ("smooth" \in st) = (val("smooth") > 0)
                 /\ pm.geometry_transform.kind = "none" =>
                        th'[t].geom_tr = Tr(Unit, Unit, 0, 0, 0, 0)
                 /\ th'[t].pc = "dispatch"]_vars

\* C18 witness: a MultiLineString is converted with the line clip and a
\* negative offset, without simplification (negative tolerance) and without
\* a geometry transform.
C18_Witness ==
    \E t \in Threads :
        /\ th[t].pc = "dispatch"
        /\ th[t].feat.geom = "MultiLineString"
        /\ props[th[t].sym].offset = Lit(-5)
        /\ props[th[t].sym].simplify_tolerance = Lit(-1)
        /\ th[t].stages = {"clip_line", "transform", "offset_transform", "affine_transform"}
        /\ th[t].geom_tr = Identity

\* C19: the marker transform of a raster marker is the recentering followed
\* by the image transform: it maps every point p of the image to the image
\* of p - center under the image transform, so the center of the bounding
\* box goes where the image transform sends the origin, for every image
\* transform.
C19_RasterRecenteredFirst ==
    [][\A t \in Threads :
          Leaves(t, "raster") =>
              LET m == th'[t].marker_trans
                  i == th'[t].image_tr
                  cx == (0 + 16 * Unit) \div 2
                  cy == (0 + 12 * Unit) \div 2
                  at(tr, x, y) == <<(x * tr.sx + y * tr.shx) \div Unit + tr.tx,
                                    (x * tr.shy + y * tr.sy) \div Unit + tr.ty>>
              IN /\ at(m, cx, cy) = at(i, 0, 0)
                 /\ at(m, cx, cy) = <<i.tx, i.ty>>
                 /\ \A x \in {0, 16 * Unit} : \A y \in {0, 12 * Unit} :
                       at(m, x, y) = at(i, x - cx, y - cy)]_vars

\* C19 witness: a raster marker with an image transform that scales and
\* translates has been drawn at an anchor, its center on the anchor moved by
\* the image transform's translation.
C19_Witness ==
    \E t \in Threads :
        /\ th[t].pc = "dispatch"
        /\ th[t].image_tr = Tr(2 * Unit, 3 * Unit, 0, 0, 500, 700)
        /\ Len(th[t].writes) = 1
        /\ th[t].writes[1].kind = "image"
        /\ transform(th[t].writes[1].tr, 8 * Unit, 6 * Unit)
               = <<th[t].tr.tx + 500, th[t].tr.ty + 700>>
        /\ transform(th[t].writes[1].tr, 0, 0)
               = <<th[t].tr.tx + 500 - 16 * Unit, th[t].tr.ty + 700 - 18 * Unit>>

\* the step is a candidate anchor put to the collision detector
Candidate(t) == th[t].pc = "dispatch" /\ th'[t].placed = th[t].placed + 1

\* C20: the occupancy of the collision detector changes only at a candidate
\* that is granted while ignore_placement is not set; a granted candidate
\* with ignore_placement set is rendered and leaves the occupancy as it is;
\* a rejected candidate is not rendered and leaves the occupancy as it is.
C20_OccupancyOnlyWhenGrantedAndNotIgnored ==
    [][\A t \in Threads :
          LET ignore == props[th[t].sym].ignore_placement.kind = "lit"
                        /\ props[th[t].sym].ignore_placement.v = 1
          IN /\ th'[t].detector # th[t].detector =>
                   /\ Candidate(t)
                   /\ th'[t].granted
                   /\ ~ignore
             /\ (Candidate(t) /\ th'[t].granted /\ ignore) =>
                   /\ th'[t].detector = th[t].detector
                   /\ th'[t].pc \in {"img_lock", "fallback", "raster_render"}
             /\ (Candidate(t) /\ ~th'[t].granted) =>
                   /\ th'[t].detector = th[t].detector
                   /\ th'[t].pc = "dispatch"
                   /\ th'[t].writes = <<>>
             /\ (th[t].pc \in {"img_body", "fallback", "raster_render"}) =>
                   th[t].granted /\ th'[t].detector = th[t].detector]_vars

\* C20 witness: a candidate of a symbolizer with ignore_placement set has
\* been rejected at an occupied footprint, after the same symbolizer was
\* granted and rendered elsewhere without being recorded.
C20_Witness ==
    \E t \in Threads :
        /\ th[t].pc = "dispatch"
        /\ th[t].placed = 1
        /\ ~th[t].granted
        /\ th[t].writes = <<>>
        /\ props[th[t].sym].ignore_placement = Lit(1)
        /\ props[th[t].sym].allow_overlap = None
        /\ footprint(th[t].tr) \in th[t].detector
        /\ \E k \in DOMAIN cached_images_ :
              k.attr.stroke_width = 2 /\ k.src = StockEllipse

\* the render is of an empty file name or of a source the registry resolves
\* to the Null variant
NullSource(l) == l.filename = "" \/ find_marker(l.filename).type = "null"

\* a step of thread t that starts the render of symbolizer s
Begins(t, s) == th[t].pc = "idle" /\ th'[t].pc # "idle" /\ th'[t].sym = s

\* C17: a render whose file name is empty or whose source resolves to the
\* Null variant returns at once: it writes no pixel, puts no candidate to
\* the collision detector, sets up no converter, and none of its steps
\* reads or changes a cache or takes a mutex.
C17_NullSourceDrawsNothing ==
    [][\A t \in Threads :
          /\ \A s \in Syms :
                (Begins(t, s) /\ props[s].file \in {FLit(""), FLit("missing.svg")}) =>
                    NullSource(th'[t]) /\ th'[t].pc = "ret"
          /\ (th'[t].pc # "idle" /\ NullSource(th'[t])) =>
                /\ th'[t].pc = "ret"
                /\ th'[t].writes = <<>>
                /\ th'[t].placed = 0
                /\ th'[t].detector = th[t].detector
                /\ th'[t].attr = "none" /\ th'[t].ell = "none"
                /\ th'[t].img = NoImgLog
                /\ th'[t].stages = {}
                /\ th[t].pc = "idle" =>
                      /\ cached_attributes_' = cached_attributes_
                      /\ cached_ellipses_' = cached_ellipses_
                      /\ cached_images_' = cached_images_
                      /\ visitor_mutex_' = visitor_mutex_
                      /\ context_mutex_' = context_mutex_
          /\ (th[t].pc = "ret" /\ NullSource(th[t]) /\ th'[t] # th[t]) =>
                /\ th'[t].pc = "idle"
                /\ th'[t].detector = th[t].detector
                /\ cached_attributes_' = cached_attributes_
                /\ cached_ellipses_' = cached_ellipses_
                /\ cached_images_' = cached_images_
                /\ visitor_mutex_' = visitor_mutex_
                /\ context_mutex_' = context_mutex_]_vars

\* C17 witness: the render of a symbolizer whose file is missing is about to
\* return, having drawn nothing, while the caches hold entries of earlier
\* renders.
C17_Witness ==
    \E t \in Threads :
        /\ th[t].pc = "ret"
        /\ th[t].filename = "missing.svg"
        /\ th[t].writes = <<>>
        /\ th[t].placed = 0
        /\ th[t].attr = "none"
        /\ cached_attributes_ # EmptyMap
        /\ cached_ellipses_ # EmptyMap

\* C21: polylabel returns the corner (minx, miny) of the envelope of a
\* polygon whose envelope has no width or no height, and the center of the
\* envelope when the centroid cannot be computed, both without constructing
\* any cell of the search.
NoExtent(polygon) ==
    width(envelope(polygon[1])) = 0 \/ height(envelope(polygon[1])) = 0

C21_DegenerateReturnsWithoutSearch ==
    pl.pc = "done" =>
        LET bbox == envelope(pl.polygon[1]) IN
        /\ NoExtent(pl.polygon) =>
               pl.ret = Pt(bbox.minx, bbox.miny) /\ pl.cells = 0
        /\ ~NoExtent(pl.polygon) /\ pl.centroid = <<>> =>
               pl.ret = center(bbox) /\ pl.cells = 0

C21_Witness ==
    /\ pl.pc = "done"
    /\ width(envelope(pl.polygon[1])) > 0
    /\ height(envelope(pl.polygon[1])) = 0
    /\ pl.ret # center(envelope(pl.polygon[1]))

Ordered(b) == b.minx <= b.maxx /\ b.miny <= b.maxy

C23_ContainsIsClosedBox ==
    box.pc = "built" =>
        /\ box.op = "contains" =>
               (box.r <=> /\ box.e.minx <= box.pt.x /\ box.pt.x <= box.e.maxx
                          /\ box.e.miny <= box.pt.y /\ box.pt.y <= box.e.maxy)
        /\ box.op = "contains" /\ Ordered(box.e)
               /\ box.pt.x \in {box.e.minx, box.e.maxx}
               /\ box.pt.y \in {box.e.miny, box.e.maxy} => box.r
        /\ box.op = "contains" /\ Ordered(box.e)
               /\ box.pt = box_center(box.T, box.e) => box.r
        /\ box.op = "contains"
               /\ (\/ box.pt.x < box.e.minx \/ box.pt.x > box.e.maxx
                   \/ box.pt.y < box.e.miny \/ box.pt.y > box.e.maxy) => ~box.r

C23_Witness ==
    /\ box.op = "contains"
    /\ box.e = Box(50 * Unit, 50 * Unit, 250 * Unit, 250 * Unit)
    /\ box.pt = Pt(250 * Unit, 50 * Unit)
    /\ box.r

Within(b, a) ==
    /\ Ordered(b)
    /\ a.minx <= b.minx /\ b.maxx <= a.maxx
    /\ a.miny <= b.miny /\ b.maxy <= a.maxy

C25_ClipByInnerBoxGivesInnerBox ==
    box.op = "clip" /\ Within(box.arg, box.was) => box.e = box.arg

C25_Witness ==
    /\ box.op = "clip"
    /\ box.was = Box(-180 * Unit, -90 * Unit, 180 * Unit, 90 * Unit)
    /\ box.arg = Box(-120 * Unit, 40 * Unit, -110 * Unit, 48 * Unit)
    /\ box.e = box.arg

\* C26: a vector marker of one attribute record takes the cached rendering
\* path only when at most one of its shapes (fill, stroke) has transparency
\* and the transform neither scales nor shears; with a transparent fill and
\* a transparent stroke it is rendered by the non-cached path.
FillTransparent(a) == (a.fill_flag \/ a.fill_gradient) /\ a.fill_opacity < 100
StrokeTransparent(a) == (a.stroke_flag \/ a.stroke_gradient) /\ a.stroke_opacity < 100

C26_CachedOnlyWithOneTransparentShape ==
    \A t \in Threads :
        th[t].pc \in {"img_lock", "img_body"} =>
            /\ Len(th[t].r_attributes) = 1
            /\ ~(FillTransparent(th[t].r_attributes[1]) /\ StrokeTransparent(th[t].r_attributes[1]))
            /\ th[t].tr.sx = Unit /\ th[t].tr.sy = Unit
            /\ th[t].tr.shx = 0 /\ th[t].tr.shy = 0

\* C27: on a miss the bounding box of the shape, grown by the stroke margin
\* on each side and moved by the local translation, lies inside the scratch
\* buffer, for the sub-pixel offset of the placement and for every other
\* offset of [0, 1): no coordinate is negative, none exceeds the width or
\* the height of the buffer.
InsideBuffer(src, a, tr) ==
    LET bb == bounding_box(src)
        m == margin(a)
        ltr == local_tr(src, a, tr)
    IN /\ bb.minx - m + ltr.tx >= 0
       /\ bb.miny - m + ltr.ty >= 0
       /\ bb.maxx + m + ltr.tx <= canvas_width(src, a)
       /\ bb.maxy + m + ltr.ty <= canvas_height(src, a)

C27_GrownBoxInsideScratchBuffer ==
    \A t \in Threads :
        th[t].img.how = "miss" =>
            /\ InsideBuffer(th[t].img.key.src, th[t].img.key.attr, th[t].tr)
            /\ \A d \in 0..(Unit - 1) :
                   InsideBuffer(th[t].img.key.src, th[t].img.key.attr,
                                Tr(Unit, Unit, 0, 0, th[t].tr.tx + d, th[t].tr.ty - d))

C27_Witness ==
    \E t \in Threads :
        /\ th[t].img.how = "miss"
        /\ margin(th[t].img.key.attr) > 0
        /\ Frac(bounding_box(th[t].img.key.src).minx - margin(th[t].img.key.attr)) > 0
        /\ Frac(th[t].tr.tx) > 0
        /\ ~th[t].img.fill.null /\ ~th[t].img.stroke.null

\* C28: when executeAsyncQuery, getNextAsyncResult or getAsyncResult throws,
\* it has cleared every pending result and then closed the connection:
\* no result is pending when the handle is finished, and isOK() is false
\* from then on.
AsyncMembers == {"executeAsyncQuery", "getNextAsyncResult", "getAsyncResult"}

C28_AsyncFailureClearsThenCloses ==
    /\ conn.raised /\ conn.op \in AsyncMembers =>
           /\ conn.pending = <<>>
           /\ \A i, j \in DOMAIN conn.calls :
                  conn.calls[i] = "PQclear" /\ conn.calls[j] = "PQfinish" => i < j
           /\ (\E j \in DOMAIN conn.calls : conn.calls[j] = "PQfinish") => conn.unread = 0
           /\ conn.closed_
           /\ ~isOK(conn)
    /\ conn.failed => ~isOK(conn)

C28_Witness ==
    /\ conn.raised
    /\ conn.op = "getNextAsyncResult"
    /\ conn.calls = <<"PQgetResult", "PQerrorMessage", "PQclear", "PQgetResult",
                      "PQclear", "PQgetResult", "PQfinish">>
    /\ ~conn.uaf

\* C29: the sample index of a translation lies in 0 .. sampling_rate *
\* sampling_rate - 1, for negative translations too, and different pairs of
\* an x bucket and a y bucket have different indices: the index gives back
\* the pair.
C29_SampleIndexWithinBucketsAndInjective ==
    bucket.pc = "done" =>
        /\ bucket.sample_idx \in 0..(sampling_rate * sampling_rate - 1)
        /\ bucket.sample_idx % sampling_rate = bucket.sample_x
        /\ bucket.sample_idx \div sampling_rate = bucket.sample_y

\* C30: threads that render ellipses of the same key while the key stays in
\* the ellipse cache use one path object: a thread that has resolved its
\* ellipse renders with the object the cache holds under the key, and two
\* such threads with the same key hold the same object.
EllipseResolved(t) ==
    /\ th[t].pc \in {"convert", "dispatch", "img_lock", "img_body", "fallback"}
    /\ th[t].ell \in {"hit", "miss"}

C30_OnePathObjectPerKey ==
    \A t \in Threads :
        EllipseResolved(t) =>
            /\ th[t].marker_key \in DOMAIN cached_ellipses_ =>
                   th[t].marker_ptr = cached_ellipses_[th[t].marker_key]
            /\ \A u \in Threads :
                   EllipseResolved(u) /\ th[u].marker_key = th[t].marker_key =>
                       th[u].marker_ptr = th[t].marker_ptr

\* the key a thread at the cached rendering path looks up
LookupKey(t) == image_key(th[t].marker_ptr, th[t].r_attributes, th[t].tr)

\* C31: the mutex of the rendered-image cache is held from the lookup until
\* the patches are blitted, on a hit as on a miss: a thread between the
\* lookup and the blits holds the mutex, no other thread enters the cached
\* rendering path or touches the cache meanwhile (a thread that would hit
\* waits too), and the mutex is given up only with the blits done.
C31_ImageMutexHeldFromLookupToBlit ==
    [][\A t \in Threads :
          th[t].pc = "img_body" =>
              /\ context_mutex_ = t
              /\ \A u \in Threads \ {t} :
                     /\ th[u].pc # "img_body" /\ th'[u].pc # "img_body"
                     /\ th[u].pc = "img_lock" => th'[u] = th[u]
              /\ cached_images_' # cached_images_ => th'[t].img.how = "miss"
              /\ context_mutex_' # t =>
                     /\ th'[t].pc = "dispatch"
                     /\ th'[t].img.how \in {"hit", "miss"}
                     /\ th'[t].writes =
                            th[t].writes \o blits(th'[t].img.fill, th'[t].img.stroke,
                                                  blit_tr(th[t].marker_ptr,
                                                          th[t].r_attributes[1], th[t].tr),
                                                  markers_dispatch_params(props[th[t].sym],
                                                                          th[t].feat),
                                                  comp_op_(props[th[t].sym], th[t].feat))]_vars

\* C31 witness: a thread holds the mutex and is about to rasterize a miss
\* while another thread, whose key is cached, waits for the mutex.
C31_Witness ==
    \E t \in Threads : \E u \in Threads \ {t} :
        /\ th[t].pc = "img_body" /\ context_mutex_ = t
        /\ LookupKey(t) \notin DOMAIN cached_images_
        /\ th[u].pc = "img_lock"
        /\ LookupKey(u) \in DOMAIN cached_images_

\* the opacities and the composite modes a placement may come with
Opacities == {100, 50}
CompOps == {"src_over", "multiply"}

\* the opacity and the composite mode of the placement a thread renders
PlacementParams(t) == markers_dispatch_params(props[th[t].sym], th[t].feat)
PlacementCompOp(t) == comp_op_(props[th[t].sym], th[t].feat)

\* C32: the patches a miss stores are those the same placement stores with
\* any other opacity and any other composite mode, and no pixel of a cached
\* patch carries another opacity than 1.0 or another composite mode than the
\* default; the opacity and the composite mode of a blit, on a hit as on a
\* miss, are those of the placement that blits.
C32_PatchesIndependentOfOpacityAndCompOp ==
    [][\A t \in Threads :
          Leaves(t, "img_body") =>
              LET l == th'[t]
                  key == l.img.key
                  src == th[t].marker_ptr
                  attrs == th[t].r_attributes
                  new == SubSeq(l.writes, Len(th[t].writes) + 1, Len(l.writes))
              IN /\ l.img.how = "miss" =>
                       \A o \in Opacities : \A c \in CompOps :
                           cached_images_'[key] =
                               [fill |-> make_fill_img(src, attrs, th[t].tr,
                                             [PlacementParams(t) EXCEPT !.opacity = o], c),
                                stroke |-> make_stroke_img(src, attrs, th[t].tr,
                                             [PlacementParams(t) EXCEPT !.opacity = o], c)]
                 /\ \A k \in DOMAIN cached_images_' :
                       \A d \in cached_images_'[k].fill.pix \cup cached_images_'[k].stroke.pix :
                           d.opacity = 100 /\ d.comp_op = "src_over"
                 /\ \A i \in DOMAIN new :
                       /\ new[i].opacity = PlacementParams(t).opacity
                       /\ new[i].comp_op = PlacementCompOp(t)
                       /\ new[i].pix \in {cached_images_'[key].fill.pix,
                                          cached_images_'[key].stroke.pix}]_vars

\* C32 witness: a placement of opacity 0.5 and composite mode multiply has
\* hit a patch that a placement of opacity 1.0 and the default mode stored,
\* and has blitted it with its own opacity and mode.
C32_Witness ==
    \E t \in Threads : \E u \in Threads \ {t} :
        /\ th[t].img.how = "miss"
        /\ PlacementParams(t).opacity = 100 /\ PlacementCompOp(t) = "src_over"
        /\ th[u].img.how = "hit" /\ th[u].img.key = th[t].img.key
        /\ th[u].writes # <<>>
        /\ \A i \in DOMAIN th[u].writes :
              /\ th[u].writes[i].opacity = 50 /\ th[u].writes[i].comp_op = "multiply"
              /\ th[u].writes[i].pix \in {th[t].img.fill.pix, th[t].img.stroke.pix}

\* C33: the handle of one Connection is finished at most once, whatever the
\* sequence of close() calls, failing asynchronous members and the
\* destruction; a connection marked closed has been finished once.
C33_HandleFinishedAtMostOnce ==
    /\ conn.finishes <= 1
    /\ conn.closed_ => conn.finishes = 1
    /\ Cardinality({i \in DOMAIN conn.calls : conn.calls[i] = "PQfinish"}) <= 1

\* C33 witness: an asynchronous member failed and closed the connection,
\* and the connection has since been destroyed without a further PQfinish.
C33_Witness ==
    /\ conn.pc = "gone"
    /\ conn.failed
    /\ conn.op = "~Connection"
    /\ conn.calls = <<>>
    /\ conn.finishes = 1

\* C34: no member passes a finished handle to libpq.
C34_NoUseOfFinishedHandle == ~conn.uaf

\* C35: a Connection that is gone, destroyed or never constructed because
\* its constructor threw, has finished the handle it obtained, once.
C35_EveryHandleFinishedOnce ==
    (\/ conn.pc = "gone"
     \/ conn.pc = "none" /\ conn.op = "Connection" /\ conn.raised)
    /\ conn.handle # "none"
    => conn.handle = "finished" /\ conn.finishes = 1

\* a step of the member function op
MemberStep(op) == conn'.op = op /\ conn'.status = conn.status /\ conn' # conn

CountCalls(c, name) == Cardinality({i \in DOMAIN c.calls : c.calls[i] = name})

\* C36: getNextAsyncResult returns a null result without raising or closing;
\* getAsyncResult closes and raises on a null result; both close and raise
\* on a result whose status is not TUPLES_OK.
C36_NullResultNormalOrError ==
    [][/\ MemberStep("getNextAsyncResult") /\ conn'.result = "null" =>
              /\ ~conn'.raised
              /\ conn'.ret = "null"
              /\ conn'.closed_ = conn.closed_
              /\ conn'.finishes = conn.finishes
       /\ MemberStep("getAsyncResult") /\ conn'.result = "null" =>
              /\ conn'.raised
              /\ conn'.closed_
              /\ ~isOK(conn')
       /\ \A op \in {"getNextAsyncResult", "getAsyncResult"} :
              MemberStep(op) /\ conn'.result \notin {"null", "PGRES_TUPLES_OK"} =>
                  /\ conn'.raised
                  /\ conn'.closed_
                  /\ ~isOK(conn')]_vars

\* C36 witness: getAsyncResult found no result on an open connection, closed
\* it and raised.
C36_Witness ==
    /\ conn.op = "getAsyncResult"
    /\ conn.result = "null"
    /\ conn.raised
    /\ conn.calls = <<"PQgetResult", "PQerrorMessage", "PQfinish">>
    /\ ~conn.uaf

\* C37: execute and executeQuery leave closed_ and the handle as they are;
\* a failing execute returns false and does not raise, a failing
\* executeQuery raises with the failed result cleared once, and isOK()
\* afterwards is decided by the status of the handle as before.
C37_SyncFailureLeavesConnectionOpen ==
    [][/\ MemberStep("execute") =>
              /\ ~conn'.raised
              /\ conn'.result # "PGRES_COMMAND_OK" => conn'.ret = "false"
       /\ MemberStep("executeQuery") /\ conn'.result # "PGRES_TUPLES_OK" =>
              /\ conn'.raised
              /\ CountCalls(conn', "PQclear") = IF conn'.result = "null" THEN 0 ELSE 1
       /\ MemberStep("execute") \/ MemberStep("executeQuery") =>
              /\ conn'.closed_ = conn.closed_
              /\ conn'.finishes = conn.finishes
              /\ conn'.handle = conn.handle
              /\ CountCalls(conn', "PQfinish") = 0
              /\ isOK(conn') = isOK(conn)]_vars

\* C37 witness: executeQuery failed on an open connection: it raised, the
\* result was cleared once and the connection is still usable.
C37_Witness ==
    /\ conn.op = "executeQuery"
    /\ conn.result = "PGRES_FATAL_ERROR"
    /\ conn.raised
    /\ conn.calls = <<"PQexec", "PQerrorMessage", "PQclear">>
    /\ isOK(conn)

\* the password given is a string that is not empty
HasPassword(password) == password # <<>> /\ password[1] # ""

\* C38: the message of the exception a failed connection attempt raises is
\* the one every other password would have given with the same connection
\* string and the same status text, and the password is no part of it.
C38_MessageIndependentOfPassword ==
    conn.op = "Connection" /\ conn.raised =>
        /\ \A password \in Passwords :
               conn.err_msg = connection_err_msg(conn.args.connection_str, password,
                                                 conn.err_msg[2])
        /\ HasPassword(conn.args.password) =>
               \A i \in DOMAIN conn.err_msg : conn.err_msg[i] # conn.args.password[1]

\* C38 witness: a connection attempt with a password failed.
C38_Witness ==
    /\ conn.op = "Connection"
    /\ conn.raised
    /\ conn.handle = "open"
    /\ conn.args.password = <<"secret">>
    /\ Len(conn.err_msg) = 5
====
